---- MODULE Spec2Model ----
(***************************************************************************)
(* A model of the file registry (src/file-store/FileStore.js) and of the   *)
(* upload protocol layered on it (src/file-store/FileStoreControl.js).     *)
(*                                                                         *)
(* JavaScript runs each callback to completion; the model has one action   *)
(* per synchronous piece of code: the synchronous part of a method call,   *)
(* and each I/O completion together with the callback (and the promise     *)
(* continuation) it runs.  File streams are modelled by what node's        *)
(* fs.WriteStream / fs.ReadStream do: a write stream opens with flag 'w'   *)
(* (create or truncate), buffers the chunks given to write() and flushes   *)
(* them one at a time at its own file position; end()/close() let the      *)
(* buffered chunks drain.                                                  *)
(***************************************************************************)
EXTENDS Integers, Sequences, FiniteSets, TLC

\* ------------------------------------------------------------- bounds
MaxIds == 2      \* calls of randomUUID()
MaxZombies == 1  \* ended write streams that still have chunks to flush
MaxLen == 2      \* bytes written in one write session / held by one input stream
MaxCalls == 5    \* calls the caller makes
MaxChunks == 3   \* chunks in the arrays the test client sends, besides the test's own
MaxMsgs == 4     \* messages a client that follows no protocol sends
MaxDepth == 3    \* levels of directories below the root of a tree

Names == {"f"}
Chunks == {<<"a">>, <<"b", "a">>}
\* a byte of a hole left by a write beyond the end of a truncated file
Hole == "0"

VARIABLES
    \* FileStore fields; readStreams and writeStreams hold the stream objects
    fileIds, fileNames, fileIdsByName, fileHashes, fileHashObjects,
    readStreams, writeStreams,
    \* the environment: the file system, the write streams the registry has
    \* ended and dropped while they still had work to do, the UUID source
    disk, zombies, nextId,
    \* the caller of the FileStore API: outstanding calls, the call settled
    \* last (NoCall once another call has been made), what the caller has
    \* done to each id, the ids whose deleteFile completed, the calls left
    calls, last, hist, deleted, budget,
    \* FileStoreControl and the socket: the listeners of the server socket for
    \* each `upload-${fileId}` event, this.dataHandlers, the closures created,
    \* the messages in flight in each direction, the client, and a record of
    \* what the chunk handlers have received and answered
    listeners, dataHandlers, nextHandler, c2s, s2c, client, seen,
    \* the server process: the 'error' event that a stream emitted while it
    \* had no 'error' listener (an uncaught exception), if there was one
    uncaught,
    \* the directory tree that rmDirRecursive and cpRecursive work on, and
    \* where the one that runs is in its code
    tree, walk,
    \* a SmartEventTarget: this.handlers, and the listeners that its
    \* EventTarget holds
    \* and the call made to it last
    handlers, listening, event

reg == <<fileIds, fileNames, fileIdsByName, fileHashes, fileHashObjects,
         readStreams, writeStreams>>
env == <<disk, zombies, nextId>>
api == <<calls, last, hist, deleted, budget>>
ctl == <<listeners, dataHandlers, nextHandler, c2s, s2c, client, seen>>
tools == <<tree, walk, handlers, listening, event>>
vars == <<reg, env, api, ctl, uncaught, tools>>

\* ------------------------------------------------------------- JS objects
EmptyMap == [x \in {} |-> 0]
Put(f, k, v) == [x \in DOMAIN f \cup {k} |-> IF x = k THEN v ELSE f[x]]
Del(f, k) == [x \in DOMAIN f \ {k} |-> f[x]]
Remove(s, j) == SubSeq(s, 1, j - 1) \o SubSeq(s, j + 1, Len(s))

RECURSIVE Flatten(_)
Flatten(cs) == IF cs = <<>> THEN <<>> ELSE Head(cs) \o Flatten(Tail(cs))
TotalLen(cs) == Len(Flatten(cs))

\* crypto: createHash('sha256') is an accumulator of the bytes given to
\* update(); digest('hex') is a function of those bytes in order.
CreateHash == <<>>
HashUpdate(h, data) == h \o data
Digest(h) == <<"sha256">> \o h

\* fs.write(fd, data) at the stream's own position
WriteAt(content, pos, data) ==
    LET n == IF Len(content) > pos + Len(data) THEN Len(content) ELSE pos + Len(data)
    IN [j \in 1..n |->
          IF j > pos /\ j <= pos + Len(data) THEN data[j - pos]
          ELSE IF j <= Len(content) THEN content[j] ELSE Hole]

\* who waits for an I/O completion: the promise of the call tok, or the
\* handler of FileStoreControl that awaits it for the file id
Waiter(kind, tok, id) == [kind |-> kind, tok |-> tok, id |-> id]
NoWaiter == Waiter("none", 0, 0)
NewWriteStream(name, waiter) ==
    [name |-> name, opened |-> FALSE, orphan |-> FALSE, pos |-> 0,
     buf |-> <<>>, waiter |-> waiter, ended |-> FALSE]
NewReadStream(name) ==
    [name |-> name, opened |-> FALSE, ended |-> FALSE, pos |-> 0]

\* An 'error' event of a stream: what failed, for which file, and who was
\* waiting for the operation.  The process runs as long as none was emitted
\* to a stream without an 'error' listener.
StreamError(syscall, name, waiter) ==
    [syscall |-> syscall, name |-> name, waiter |-> waiter]
NoError == StreamError("none", "", NoWaiter)
Running == uncaught = NoError /\ UNCHANGED <<uncaught, tools>>
\* the client is another process
Remote == UNCHANGED <<uncaught, tools>>

\* A stream that was ended (stream.end(); stream.close()) still opens its
\* file and drains its buffer; after that it does nothing more.
HasWork(s) == ~s.opened \/ s.buf # <<>>
\* a stream that the registry lets go of, as it is
DropStream(zs, s) == IF HasWork(s) THEN Append(zs, s) ELSE zs
EndStream(zs, s) == DropStream(zs, [s EXCEPT !.ended = TRUE])

\* ------------------------------------------------------------- API calls
NoId == 0
Call(op, name, id) ==
    [op |-> op, name |-> name, id |-> id, tok |-> 0, data |-> <<>>,
     input |-> <<>>, hash |-> <<>>, stage |-> "", sink |-> <<>>,
     hasExpect |-> FALSE, expect |-> <<>>, reused |-> FALSE, size |-> 0,
     repeat |-> FALSE, target |-> NoId, result |-> "pending"]
NoCall == Call("none", "", NoId)
Idle == calls = {}
NewTok == CHOOSE t \in 1..(Cardinality(calls) + 1) : \A c \in calls : c.tok # t
ByTok(t) == CHOOSE c \in calls : c.tok = t
Settled(c, result) == [c EXCEPT !.result = result, !.tok = 0, !.stage = "",
                                !.input = <<>>, !.hash = <<>>]

\* ------------------------------------------------------------- the socket
\* The argument of an event: undefined, or an object with some of the keys
\* fileName, fileId, data, code (and message, which nothing reads).
Undefined ==
    [defined |-> FALSE, keys |-> {}, fileName |-> "", fileId |-> NoId,
     data |-> <<>>, code |-> 0]
EmptyObject == [Undefined EXCEPT !.defined = TRUE]
FileNamePayload(fileName) ==
    [EmptyObject EXCEPT !.keys = {"fileName"}, !.fileName = fileName]
FileIdPayload(fileId) ==
    [EmptyObject EXCEPT !.keys = {"fileId"}, !.fileId = fileId]
DataPayload(data) == [EmptyObject EXCEPT !.keys = {"data"}, !.data = data]
CodePayload(code) == [EmptyObject EXCEPT !.keys = {"code", "message"}, !.code = code]

\* require('./isEmptyObject'): true of an object that has no key
isEmptyObject(x) == x.keys = {}

\* the event 'upload' (id = NoId) or `upload-${id}`, with its argument
Msg(id, payload) == [id |-> id, payload |-> payload]

NotSeen == [chunks |-> 0, replies |-> 0, acks |-> 0, written |-> 0]
\* the client before it has connected
NoClient ==
    [list |-> <<>>, data |-> <<>>, readyForTest |-> FALSE, fileId |-> NoId,
     on |-> FALSE, sent |-> 0, acks |-> 0, done |-> FALSE, actual |-> <<>>,
     pass |-> FALSE, msgs |-> 0]

\* "new FileStoreControl()": no data handler yet, nothing in flight
\* no directory tree, no walk, and a SmartEventTarget as constructed
NoTree == [dirs |-> {}, files |-> {}]
NoWalk == [pc |-> "none"]
NoEvent == [op |-> "none", name |-> "", handler |-> "", threw |-> FALSE,
            invoked |-> {}]
InitTarget ==
    /\ handlers = EmptyMap
    /\ listening = EmptyMap
    /\ event = NoEvent

InitTools ==
    /\ tree = NoTree
    /\ walk = NoWalk
    /\ InitTarget

InitControl ==
    /\ listeners = EmptyMap
    /\ dataHandlers = EmptyMap
    /\ nextHandler = 1
    /\ s2c = <<>>
    /\ seen = NotSeen

InitFileStore ==
    /\ fileIds = {}
    /\ fileNames = EmptyMap
    /\ fileIdsByName = EmptyMap
    /\ fileHashes = EmptyMap
    /\ fileHashObjects = EmptyMap
    /\ readStreams = EmptyMap
    /\ writeStreams = EmptyMap
    /\ zombies = <<>>
    /\ nextId = 1

InitServer ==
    /\ InitFileStore
    /\ InitControl
    /\ c2s = <<>>
    /\ client = NoClient
    /\ disk = EmptyMap
    /\ calls = {}
    /\ last = NoCall
    /\ hist = EmptyMap
    /\ deleted = {}
    /\ budget = MaxCalls
    /\ uncaught = NoError

Init ==
    /\ InitServer
    /\ InitTools

\* ------------------------------------------------------------- close
\* close(id) as a function of the fields it reads and writes, r
CloseHashes_always(r, id) ==
    Put(r.fileHashes, id,
        Digest(IF id \in DOMAIN r.fileHashObjects
               THEN r.fileHashObjects[id] ELSE CreateHash))
CloseHashes(r, id) ==
    IF id \in DOMAIN r.fileHashObjects
    THEN Put(r.fileHashes, id, Digest(r.fileHashObjects[id]))
    ELSE r.fileHashes
CloseHashObjects_keep(r, id) == r.fileHashObjects
CloseHashObjects(r, id) == Del(r.fileHashObjects, id)
CloseReadStreams(r, id) == Del(r.readStreams, id)
CloseWriteStreams(r, id) == Del(r.writeStreams, id)
\* writeStreams[id].close()
CloseZombies(zs, streams, id) ==
    IF id \in DOMAIN streams THEN EndStream(zs, streams[id]) ELSE zs
\* the calls that listen to the read stream of their id
ReadOps == {"readFile", "updateHash", "copyFile"}
\* readStreams[id].close() destroys the stream: a call listening to it
\* gets neither 'end' nor 'error'
CloseReaders(id) ==
    {IF c.op \in ReadOps /\ c.id = id /\ id \in DOMAIN readStreams
     THEN [c EXCEPT !.stage = "destroyed"] ELSE c : c \in calls}

HistClose(id) ==
    IF id \in DOMAIN hist /\ hist[id].phase \in {"fresh", "read"}
    THEN [hist EXCEPT ![id].phase = "closed"]
    ELSE hist

Streams ==
    [fileHashes |-> fileHashes, fileHashObjects |-> fileHashObjects,
     readStreams |-> readStreams, writeStreams |-> writeStreams,
     zombies |-> zombies]
CloseStreams(r, id) ==
    [fileHashes |-> CloseHashes(r, id),
     fileHashObjects |-> CloseHashObjects(r, id),
     readStreams |-> CloseReadStreams(r, id),
     writeStreams |-> CloseWriteStreams(r, id),
     zombies |-> CloseZombies(r.zombies, r.writeStreams, id)]
SetStreams(r) ==
    /\ fileHashes' = r.fileHashes
    /\ fileHashObjects' = r.fileHashObjects
    /\ readStreams' = r.readStreams
    /\ writeStreams' = r.writeStreams
    /\ zombies' = r.zombies

Close(id) ==
    /\ budget > 0
    /\ budget' = budget - 1
    /\ SetStreams(CloseStreams(Streams, id))
    /\ calls' = CloseReaders(id)
    /\ last' = Settled([Call("close", "", id) EXCEPT
                            !.repeat = last.op = "close" /\ last.id = id], "ok")
    /\ hist' = HistClose(id)
    /\ UNCHANGED <<fileIds, fileNames, fileIdsByName, disk, nextId, deleted, ctl>>

\* closeAll: close(id) for each id of fileIds, in the order in which the
\* ids were added to the set
RECURSIVE CloseEach(_, _)
CloseEach(r, ids) ==
    IF ids = {} THEN r
    ELSE LET id == CHOOSE x \in ids : \A y \in ids : x <= y
         IN CloseEach(CloseStreams(r, id), ids \ {id})

CloseAllReaders ==
    {IF c.op \in ReadOps /\ c.id \in fileIds /\ c.id \in DOMAIN readStreams
     THEN [c EXCEPT !.stage = "destroyed"] ELSE c : c \in calls}

HistCloseAll ==
    [id \in DOMAIN hist |->
        IF id \in fileIds /\ hist[id].phase \in {"fresh", "read"}
        THEN [hist[id] EXCEPT !.phase = "closed"] ELSE hist[id]]

CloseAll ==
    /\ budget > 0
    /\ budget' = budget - 1
    /\ SetStreams(CloseEach(Streams, fileIds))
    /\ calls' = CloseAllReaders
    /\ last' = Settled(Call("closeAll", "", NoId), "ok")
    /\ hist' = HistCloseAll
    /\ UNCHANGED <<fileIds, fileNames, fileIdsByName, disk, nextId, deleted, ctl>>

\* ------------------------------------------------------------- createNewEmptyFile
CreateId(fileName) ==
    IF fileName \in DOMAIN fileIdsByName THEN fileIdsByName[fileName] ELSE nextId

\* "Close old write stream if it exists."
EndOldWriteStream_drop(id) ==
    IF id \in DOMAIN writeStreams THEN DropStream(zombies, writeStreams[id]) ELSE zombies
EndOldWriteStream(id) ==
    IF id \in DOMAIN writeStreams THEN EndStream(zombies, writeStreams[id]) ELSE zombies

\* the synchronous part; the promise resolves in OpenWrite
CreateNewEmptyFile(fileName, waiter) ==
    LET reuse == fileName \in DOMAIN fileIdsByName
        id == CreateId(fileName)
    IN /\ Len(EndOldWriteStream(id)) <= MaxZombies
       /\ reuse \/ nextId <= MaxIds
       /\ fileIds' = IF reuse THEN fileIds ELSE fileIds \cup {id}
       /\ fileNames' = IF reuse THEN fileNames ELSE Put(fileNames, id, fileName)
       /\ fileIdsByName' =
            IF reuse THEN fileIdsByName ELSE Put(fileIdsByName, fileName, id)
       /\ nextId' = IF reuse THEN nextId ELSE nextId + 1
       /\ zombies' = EndOldWriteStream(id)
       /\ writeStreams' = Put(writeStreams, id, NewWriteStream(fileName, waiter))
       /\ UNCHANGED <<fileHashes, fileHashObjects, disk>>

Create(fileName) ==
    LET c == [Call("create", fileName, CreateId(fileName)) EXCEPT
                !.tok = NewTok,
                !.reused = fileName \in DOMAIN fileIdsByName,
                !.size = Cardinality(fileIds)]
    IN /\ budget > 0
       /\ budget' = budget - 1
       /\ CreateNewEmptyFile(fileName, Waiter("create", c.tok, c.id))
       /\ calls' = calls \cup {c}
       /\ last' = NoCall
       /\ UNCHANGED <<readStreams, hist, deleted, ctl>>

\* ------------------------------------------------------------- writeFile
Inputs ==
    {cs \in UNION {[1..n -> Chunks] : n \in 0..MaxLen} : TotalLen(cs) <= MaxLen}

\* "const id = await this.createNewEmptyFile(fileName)"
WriteFile(fileName, input) ==
    LET c == [Call("writeFile", fileName, CreateId(fileName)) EXCEPT
                !.tok = NewTok, !.input = input, !.data = Flatten(input),
                !.hash = CreateHash, !.stage = "opening"]
    IN /\ budget > 0
       /\ budget' = budget - 1
       /\ CreateNewEmptyFile(fileName, Waiter("writeFile", c.tok, c.id))
       /\ calls' = calls \cup {c}
       /\ last' = NoCall
       /\ UNCHANGED <<readStreams, hist, deleted, ctl>>

\* inputStream 'data': hash.update(data); this.writeStreams[id].write(data)
InputData(c) ==
    /\ c \in calls /\ c.op = "writeFile" /\ c.stage = "flowing"
    /\ c.input # <<>>
    /\ c.id \in DOMAIN writeStreams
    /\ writeStreams' = [writeStreams EXCEPT ![c.id].buf =
                          Append(@, [data |-> Head(c.input), who |-> NoWaiter, id |-> c.id])]
    /\ calls' = (calls \ {c}) \cup
                {[c EXCEPT !.input = Tail(@), !.hash = HashUpdate(@, Head(c.input))]}
    /\ UNCHANGED <<fileIds, fileNames, fileIdsByName, fileHashes, fileHashObjects,
                   readStreams, env, last, hist, deleted, budget, ctl>>

WriteFileHashes(c) == Put(fileHashes, c.id, Digest(c.hash))

\* inputStream 'end': this.fileHashes[id] = hash.digest('hex'); resolve(id)
InputEnd(c) ==
    /\ c \in calls /\ c.op = "writeFile" /\ c.stage = "flowing"
    /\ c.input = <<>>
    /\ fileHashes' = WriteFileHashes(c)
    /\ calls' = calls \ {c}
    /\ last' = Settled(c, "ok")
    /\ hist' = Put(hist, c.id, [phase |-> "fresh", via |-> "writeFile", data |-> c.data])
    /\ UNCHANGED <<fileIds, fileNames, fileIdsByName, fileHashObjects, readStreams,
                   writeStreams, env, deleted, budget, ctl>>

\* ------------------------------------------------------------- FileStoreControl, after an await
Listeners(fileId) == IF fileId \in DOMAIN listeners THEN listeners[fileId] ELSE <<>>

\* s.on(`upload-${fileId}`, this.dataHandlers[fileId])
UploadListeners(fileId, handler) ==
    Put(listeners, fileId, Append(Listeners(fileId), handler))

\* the 'upload' listener from the point where createNewEmptyFile has
\* resolved fileId: a new closure becomes this.dataHandlers[fileId], it is
\* added to the listeners, and { fileId } is sent to the client
UploadCreated(fileId) ==
    /\ dataHandlers' = Put(dataHandlers, fileId, nextHandler)
    /\ listeners' = UploadListeners(fileId, nextHandler)
    /\ nextHandler' = nextHandler + 1
    /\ s2c' = Append(s2c, Msg(NoId, FileIdPayload(fileId)))
    /\ UNCHANGED <<c2s, client, seen>>

\* a data handler that does not emit `upload-${fileId}` when the write resolved
ChunkWritten_silent(fileId) ==
    /\ seen' = [seen EXCEPT !.replies = @ + 1, !.written = @ + 1]
    /\ UNCHANGED <<listeners, dataHandlers, nextHandler, c2s, s2c, client>>
\* the data handler from the point where write(fileId, args[0].data) has
\* resolved: s.emit(`upload-${fileId}`)
ChunkWritten(fileId) ==
    /\ s2c' = Append(s2c, Msg(fileId, Undefined))
    /\ seen' = [seen EXCEPT !.replies = @ + 1, !.acks = @ + 1, !.written = @ + 1]
    /\ UNCHANGED <<listeners, dataHandlers, nextHandler, c2s, client>>

\* ------------------------------------------------------------- open completes
\* the 'open' listener of createNewEmptyFile: resolve(id), and what the
\* awaiting code does next
OnOpen(waiter) ==
    CASE waiter.kind = "create" ->
           LET c == ByTok(waiter.tok)
           IN /\ calls' = calls \ {c}
              /\ last' = Settled(c, "ok")
              /\ hist' = Put(hist, c.id,
                             [phase |-> "fresh", via |-> "write", data |-> <<>>])
              /\ UNCHANGED ctl
      [] waiter.kind = "writeFile" ->
           \* writeFile attaches its listeners to inputStream
           LET c == ByTok(waiter.tok)
           IN /\ calls' = (calls \ {c}) \cup {[c EXCEPT !.stage = "flowing"]}
              /\ hist' = Del(hist, c.id)
              /\ UNCHANGED <<last, ctl>>
      [] waiter.kind = "copyFile" ->
           \* writeFile attaches its listeners to the read stream of the source
           LET c == ByTok(waiter.tok)
           IN /\ calls' = (calls \ {c}) \cup {[c EXCEPT !.stage = ""]}
              /\ hist' = Del(hist, c.target)
              /\ UNCHANGED <<last, ctl>>
      [] waiter.kind = "upload" ->
           /\ UploadCreated(waiter.id)
           /\ UNCHANGED <<calls, last, hist>>
      [] OTHER -> UNCHANGED <<calls, last, hist, ctl>>

\* fs.open(path, 'w') completed for the registry's stream of id: the file
\* exists and is empty
OpenWrite(id) ==
    /\ id \in DOMAIN writeStreams /\ ~writeStreams[id].opened
    /\ disk' = Put(disk, writeStreams[id].name, <<>>)
    /\ writeStreams' = [writeStreams EXCEPT ![id].opened = TRUE, ![id].waiter = NoWaiter]
    /\ OnOpen(writeStreams[id].waiter)
    /\ UNCHANGED <<fileIds, fileNames, fileIdsByName, fileHashes, fileHashObjects,
                   readStreams, zombies, nextId, deleted, budget>>

\* ------------------------------------------------------------- write
SessionBytes(id) ==
    (IF id \in DOMAIN fileHashObjects THEN Len(fileHashObjects[id]) ELSE 0)
    + (IF id \in DOMAIN writeStreams
       THEN TotalLen([j \in DOMAIN writeStreams[id].buf |-> writeStreams[id].buf[j].data])
       ELSE 0)

HistWrite(id, data) ==
    IF id \in DOMAIN hist /\ hist[id].phase = "fresh" /\ hist[id].via = "write"
    THEN [hist EXCEPT ![id].data = @ \o data]
    ELSE Del(hist, id)

\* this.writeStreams[fileId].write(data, cb): the stream buffers the chunk
StreamWrite(streams, fileId, data, who) ==
    [streams EXCEPT ![fileId].buf =
        Append(@, [data |-> data, who |-> who, id |-> fileId])]

\* "if (!this.writeStreams[fileId])" is false
HasWriteStream_tracked(fileId) == fileId \in fileIds
HasWriteStream(fileId) == fileId \in DOMAIN writeStreams

\* the synchronous part of write(fileId, data)
Write(fileId, data) ==
    /\ budget > 0
    /\ budget' = budget - 1
    /\ IF ~HasWriteStream(fileId)
       THEN \* reject(new Error(`Unknown FileId`)); the TypeError thrown by the
            \* next statement is swallowed by the already rejected promise
            /\ last' = Settled(Call("write", "", fileId), "UnknownFileId")
            /\ UNCHANGED <<reg, env, calls, hist, deleted>>
       ELSE /\ SessionBytes(fileId) + Len(data) <= MaxLen
            /\ LET c == [Call("write", "", fileId) EXCEPT !.tok = NewTok]
               IN /\ writeStreams' =
                        StreamWrite(writeStreams, fileId, data, Waiter("write", c.tok, fileId))
                  /\ calls' = calls \cup {c}
            /\ last' = NoCall
            /\ UNCHANGED <<fileIds, fileNames, fileIdsByName, fileHashes,
                           fileHashObjects, readStreams, env, hist, deleted>>
    /\ UNCHANGED ctl

\* the callback of writeStream.write(data, cb), called with no error
WriteCallbackHashObjects(fileId, data) ==
    Put(fileHashObjects, fileId,
        HashUpdate(IF fileId \in DOMAIN fileHashObjects
                   THEN fileHashObjects[fileId] ELSE CreateHash, data))

\* what runs when fs.write completed for the buffered chunk w
OnWritten(w) ==
    CASE w.who.kind = "write" ->
           LET c == ByTok(w.who.tok)
           IN /\ fileHashObjects' = WriteCallbackHashObjects(w.id, w.data)
              /\ calls' = calls \ {c}
              /\ last' = Settled(c, "ok")
              /\ hist' = HistWrite(w.id, w.data)
              /\ UNCHANGED ctl
      [] w.who.kind = "session" ->
           /\ fileHashObjects' = WriteCallbackHashObjects(w.id, w.data)
           /\ ChunkWritten(w.id)
           /\ UNCHANGED <<calls, last, hist>>
      [] OTHER -> UNCHANGED <<fileHashObjects, calls, last, hist, ctl>>

Flushed(s) == [s EXCEPT !.buf = Tail(@), !.pos = @ + Len(Head(s.buf).data)]
\* fs.write of the oldest buffered chunk, to the file the stream has open
DiskAfterWrite_lost(s) == disk
DiskAfterWrite(s) ==
    IF s.orphan \/ s.name \notin DOMAIN disk THEN disk
    ELSE Put(disk, s.name, WriteAt(disk[s.name], s.pos, Head(s.buf).data))

\* fs.write completed for the oldest buffered chunk of the registry's stream
WriteDone(id) ==
    /\ id \in DOMAIN writeStreams
    /\ writeStreams[id].opened /\ writeStreams[id].buf # <<>>
    /\ disk' = DiskAfterWrite(writeStreams[id])
    /\ writeStreams' = [writeStreams EXCEPT ![id] = Flushed(@)]
    /\ OnWritten(Head(writeStreams[id].buf))
    /\ UNCHANGED <<fileIds, fileNames, fileIdsByName, fileHashes, readStreams,
                   zombies, nextId, deleted, budget>>

\* the same for a stream the registry has ended and dropped
ZombieWriteDone(j) ==
    /\ j \in DOMAIN zombies
    /\ zombies[j].opened /\ zombies[j].buf # <<>>
    /\ disk' = DiskAfterWrite(zombies[j])
    /\ zombies' = IF HasWork(Flushed(zombies[j]))
                  THEN [zombies EXCEPT ![j] = Flushed(@)]
                  ELSE Remove(zombies, j)
    /\ OnWritten(Head(zombies[j].buf))
    /\ UNCHANGED <<fileIds, fileNames, fileIdsByName, fileHashes, readStreams,
                   writeStreams, nextId, deleted, budget>>

\* fs.open completed for a stream the registry has ended and dropped before
\* it was open: 'open' fires all the same
ZombieOpen(j) ==
    /\ j \in DOMAIN zombies /\ ~zombies[j].opened
    /\ disk' = Put(disk, zombies[j].name, <<>>)
    /\ zombies' = IF zombies[j].buf # <<>>
                  THEN [zombies EXCEPT ![j].opened = TRUE, ![j].waiter = NoWaiter]
                  ELSE Remove(zombies, j)
    /\ OnOpen(zombies[j].waiter)
    /\ UNCHANGED <<fileIds, fileNames, fileIdsByName, fileHashes, fileHashObjects,
                   readStreams, writeStreams, nextId, deleted, budget>>

\* ------------------------------------------------------------- I/O failures
\* createNewEmptyFile gives its stream an 'open' listener and no 'error'
\* listener: when fs.open fails the stream emits 'error' to nobody, which
\* is an uncaught exception.  reject is never called, and what the
\* registry was given before the open stays.
OpenFails(s) ==
    /\ uncaught = NoError
    /\ uncaught' = StreamError("open", s.name, s.waiter)
    /\ UNCHANGED <<reg, env, api, ctl, tools>>

OpenWriteFails(id) ==
    /\ id \in DOMAIN writeStreams /\ ~writeStreams[id].opened
    /\ OpenFails(writeStreams[id])

ZombieOpenFails(j) ==
    /\ j \in DOMAIN zombies /\ ~zombies[j].opened
    /\ OpenFails(zombies[j])

\* the chunks of a buffer whose write was started by the data handler
SessionChunks(buf) == SelectSeq(buf, LAMBDA w : w.who.kind = "session")
\* the write calls of the API that wait for a chunk of a buffer
Writers(buf) ==
    {c \in calls : \E k \in DOMAIN buf :
        buf[k].who.kind = "write" /\ buf[k].who.tok = c.tok}

\* the catch block of the chunk branch, for each of the chunks ws
ChunkFailed_acks(ws) ==
    /\ s2c' = s2c \o [k \in DOMAIN ws |-> Msg(ws[k].id, CodePayload(2))]
                 \o [k \in DOMAIN ws |-> Msg(ws[k].id, Undefined)]
    /\ seen' = [seen EXCEPT !.replies = @ + Len(ws)]
    /\ UNCHANGED <<listeners, dataHandlers, nextHandler, c2s, client>>
ChunkFailed(ws) ==
    /\ s2c' = s2c \o [k \in DOMAIN ws |-> Msg(ws[k].id, CodePayload(2))]
    /\ seen' = [seen EXCEPT !.replies = @ + Len(ws)]
    /\ UNCHANGED <<listeners, dataHandlers, nextHandler, c2s, client>>

\* the callbacks of writeStream.write(data, cb), called with an error:
\* reject(e), and what the awaiting code does next
OnWriteError(buf) ==
    /\ calls' = calls \ Writers(buf)
    /\ last' = IF Writers(buf) = {} THEN last
               ELSE Settled(CHOOSE c \in Writers(buf) : TRUE, "WriteFailure")
    /\ hist' = IF Writers(buf) = {} THEN hist ELSE Del(hist, Head(buf).id)
    /\ ChunkFailed(SessionChunks(buf))

\* fs.write failed for the oldest buffered chunk of the stream s: the
\* stream is destroyed, the callback of each chunk it holds gets an error,
\* and it emits 'error', to nobody
WriteFails(s) ==
    /\ uncaught = NoError
    /\ s.opened /\ s.buf # <<>>
    /\ OnWriteError(s.buf)
    /\ uncaught' = StreamError("write", s.name, Head(s.buf).who)
    /\ UNCHANGED <<fileIds, fileNames, fileIdsByName, fileHashes, fileHashObjects,
                   readStreams, disk, nextId, deleted, budget, tools>>

WriteStreamFails(id) ==
    /\ id \in DOMAIN writeStreams
    /\ WriteFails(writeStreams[id])
    /\ writeStreams' = [writeStreams EXCEPT ![id].buf = <<>>]
    /\ UNCHANGED zombies

ZombieWriteFails(j) ==
    /\ j \in DOMAIN zombies
    /\ WriteFails(zombies[j])
    /\ zombies' = Remove(zombies, j)
    /\ UNCHANGED writeStreams

\* ------------------------------------------------------------- readFile
\* getOrCreateReadStream(id); join() throws when fileNames[id] is undefined
GetOrCreateReadStream(id) ==
    IF id \in DOMAIN readStreams \/ id \notin DOMAIN fileNames THEN readStreams
    ELSE Put(readStreams, id, NewReadStream(fileNames[id]))

\* getOrCreateReadStream(id) throws: no stream is cached, and join() gets
\* undefined for the name
JoinThrows(id) == id \notin DOMAIN readStreams /\ id \notin DOMAIN fileNames

HistRead(id) ==
    IF id \in DOMAIN hist THEN [hist EXCEPT ![id].phase = "read"] ELSE hist

\* the synchronous part of readFile(id, outputStream)
ReadFile(id) ==
    /\ budget > 0
    /\ budget' = budget - 1
    /\ readStreams' = GetOrCreateReadStream(id)
    /\ IF id \notin fileIds
       THEN \* reject(Unknown FileId); what the executor does or throws after
            \* that no longer changes the promise
            /\ last' = Settled(Call("readFile", "", id), "UnknownFileId")
            /\ UNCHANGED <<calls, hist>>
       ELSE IF JoinThrows(id)
       THEN \* the TypeError thrown in the executor rejects the promise
            /\ last' = Settled(Call("readFile", "", id), "TypeError")
            /\ UNCHANGED <<calls, hist>>
       ELSE /\ calls' = calls \cup
                   {[Call("readFile", fileNames[id], id) EXCEPT
                       !.tok = NewTok,
                       !.hasExpect = id \in DOMAIN hist /\ hist[id].phase = "closed",
                       !.expect = IF id \in DOMAIN hist /\ hist[id].phase = "closed"
                                  THEN hist[id].data ELSE <<>>]}
            /\ hist' = HistRead(id)
            /\ last' = NoCall
    /\ UNCHANGED <<fileIds, fileNames, fileIdsByName, fileHashes, fileHashObjects,
                   writeStreams, env, deleted, ctl>>

\* ------------------------------------------------------------- getReadStream
\* getOrCreateReadStream(id) called by the user of the registry: join()
\* throws before anything is stored when fileNames[id] is undefined
CallGetOrCreateReadStream_any(id) ==
    /\ readStreams' = Put(readStreams, id, NewReadStream(""))
    /\ last' = Settled(Call("getOrCreateReadStream", "", id), "stream")
CallGetOrCreateReadStream(id) ==
    /\ readStreams' = GetOrCreateReadStream(id)
    /\ last' = Settled(Call("getOrCreateReadStream", "", id),
                       IF id \in DOMAIN readStreams \/ id \in DOMAIN fileNames
                       THEN "stream" ELSE "TypeError")

\* getReadStream(id): undefined when fileIds does not have the id
CallGetReadStream(id) ==
    IF id \notin fileIds
    THEN /\ readStreams' = readStreams
         /\ last' = Settled(Call("getReadStream", "", id), "undefined")
    ELSE /\ readStreams' = GetOrCreateReadStream(id)
         /\ last' = Settled(Call("getReadStream", "", id),
                            IF JoinThrows(id) THEN "TypeError" ELSE "stream")

\* the caller asks for the stream, by either function, and leaves it alone
GetStream(id) ==
    /\ budget > 0
    /\ budget' = budget - 1
    /\ CallGetReadStream(id) \/ CallGetOrCreateReadStream(id)
    /\ hist' = HistRead(id)
    /\ UNCHANGED <<fileIds, fileNames, fileIdsByName, fileHashes, fileHashObjects,
                   writeStreams, env, calls, deleted, ctl>>

\* ------------------------------------------------------------- updateHash
\* the synchronous part of updateHash(id)
UpdateHash(id) ==
    /\ budget > 0
    /\ budget' = budget - 1
    /\ readStreams' = GetOrCreateReadStream(id)
    /\ IF id \notin fileIds
       THEN \* reject(Unknown FileId); getOrCreateReadStream then throws
            /\ last' = Settled(Call("updateHash", "", id), "UnknownFileId")
            /\ UNCHANGED <<calls, hist>>
       ELSE IF JoinThrows(id)
       THEN /\ last' = Settled(Call("updateHash", "", id), "TypeError")
            /\ UNCHANGED <<calls, hist>>
       ELSE /\ calls' = calls \cup
                   {[Call("updateHash", fileNames[id], id) EXCEPT
                       !.tok = NewTok, !.hash = CreateHash]}
            /\ hist' = HistRead(id)
            /\ last' = NoCall
    /\ UNCHANGED <<fileIds, fileNames, fileIdsByName, fileHashes, fileHashObjects,
                   writeStreams, env, deleted, ctl>>

\* ------------------------------------------------------------- the read stream
Readers(id) == {c \in calls : c.op \in ReadOps /\ c.id = id /\ c.stage = ""}

\* the calls that keep a hash of what the stream delivers: updateHash, and
\* the writeFile that copyFile has called with the stream as its input
Hashers(id) == {c \in Readers(id) : c.op \in {"updateHash", "copyFile"}}
\* the id whose hash the call records
HashedId(c) == IF c.op = "copyFile" THEN c.target ELSE c.id

\* the 'data' listeners: outputStream.write(data), hash.update(data)
OnData(c, data) ==
    [c EXCEPT !.sink = @ \o data,
              !.hash = IF c \in Hashers(c.id) THEN HashUpdate(@, data) ELSE @]

\* the 'data' listener of writeFile: this.writeStreams[id].write(data)
CopyData(id, data) ==
    IF \E c \in Readers(id) : c.op = "copyFile"
    THEN StreamWrite(writeStreams,
                     (CHOOSE c \in Readers(id) : c.op = "copyFile").target,
                     data, NoWaiter)
    ELSE writeStreams

\* the 'end' listener of updateHash and of writeFile:
\* this.fileHashes[id] = hash.digest('hex')
UpdateHashes(id) ==
    IF Hashers(id) # {}
    THEN LET c == CHOOSE h \in Hashers(id) : TRUE
         IN Put(fileHashes, HashedId(c), Digest(c.hash))
    ELSE fileHashes

\* resolve(), resolve(this.fileHashes[id]), or resolve(id) in writeFile
OnEnd(c) ==
    Settled([c EXCEPT !.data = IF c.op = "updateHash" THEN Digest(c.hash)
                               ELSE IF c.op = "copyFile" THEN c.sink ELSE @],
            "ok")

\* fs.open(path, 'r') completed
ReadOpen(id) ==
    /\ id \in DOMAIN readStreams
    /\ ~readStreams[id].opened /\ ~readStreams[id].ended
    /\ IF readStreams[id].name \in DOMAIN disk
       THEN /\ readStreams' = [readStreams EXCEPT ![id].opened = TRUE]
            /\ UNCHANGED <<calls, last>>
       ELSE \* ENOENT: 'error' fires, every readFile listening rejects
            /\ readStreams' = [readStreams EXCEPT ![id].ended = TRUE]
            /\ calls' = calls \ Readers(id)
            /\ last' = IF Readers(id) = {} THEN last
                       ELSE Settled(CHOOSE c \in Readers(id) : TRUE, "ENOENT")
    /\ UNCHANGED <<fileIds, fileNames, fileIdsByName, fileHashes, fileHashObjects,
                   writeStreams, env, hist, deleted, budget, ctl>>

\* fs.read completed: 'data' with the bytes up to the end of the file
\* (outputStream.write(data)), or 'end' when none are left (resolve)
ReadChunk(id) ==
    /\ id \in DOMAIN readStreams
    /\ readStreams[id].opened /\ ~readStreams[id].ended
    \* a stream flows once it has a 'data' listener
    /\ Readers(id) # {}
    /\ LET r == readStreams[id]
           content == IF r.name \in DOMAIN disk THEN disk[r.name] ELSE <<>>
           data == SubSeq(content, r.pos + 1, Len(content))
       IN IF data # <<>>
          THEN /\ readStreams' = [readStreams EXCEPT ![id].pos = Len(content)]
               /\ calls' = (calls \ Readers(id)) \cup
                           {OnData(c, data) : c \in Readers(id)}
               /\ writeStreams' = CopyData(id, data)
               /\ UNCHANGED <<last, fileHashes>>
          ELSE /\ readStreams' = [readStreams EXCEPT ![id].ended = TRUE]
               /\ calls' = calls \ Readers(id)
               /\ fileHashes' = UpdateHashes(id)
               /\ last' = IF Readers(id) = {} THEN last
                          ELSE OnEnd(CHOOSE c \in Readers(id) : TRUE)
               /\ UNCHANGED writeStreams
    /\ UNCHANGED <<fileIds, fileNames, fileIdsByName, fileHashObjects,
                   env, hist, deleted, budget, ctl>>

\* ------------------------------------------------------------- copyFile
\* copyFile(tempFileStore, fileStore, sourceId, targetId) with one store in
\* both places, up to the await in writeFile: the read stream of sourceId
\* is taken from readStreams or created, and writeFile calls
\* createNewEmptyFile(fileStore.fileNames[targetId]).  The listeners are
\* attached to the read stream when the file of the target is open.
CopyFile(sourceId, targetId) ==
    LET c == [Call("copyFile", fileNames[targetId], sourceId) EXCEPT
                !.tok = NewTok, !.target = targetId, !.hash = CreateHash,
                !.stage = "opening"]
    IN /\ budget > 0
       /\ budget' = budget - 1
       /\ ~JoinThrows(sourceId) /\ targetId \in DOMAIN fileNames
       /\ sourceId # targetId
       /\ readStreams' = GetOrCreateReadStream(sourceId)
       /\ CreateNewEmptyFile(fileNames[targetId], Waiter("copyFile", c.tok, targetId))
       /\ calls' = calls \cup {c}
       /\ last' = NoCall
       /\ hist' = HistRead(sourceId)
       /\ UNCHANGED <<deleted, ctl>>

\* the key that a name which is undefined becomes in _fileIdsByName
UndefinedName == "undefined"

\* copyFile when fileStore.fileNames[targetId] is undefined: writeFile calls
\* createNewEmptyFile(undefined), which adds a new id to fileIds, stores
\* undefined as its name (reading fileNames[id] gives undefined as before)
\* and the id under the key 'undefined', and then throws in join(); the
\* promise of copyFile rejects
CopyFileUntracked(sourceId, targetId) ==
    LET reuse == UndefinedName \in DOMAIN fileIdsByName
    IN /\ budget > 0
       /\ budget' = budget - 1
       /\ ~JoinThrows(sourceId) /\ targetId \notin DOMAIN fileNames
       /\ reuse \/ nextId <= MaxIds
       /\ readStreams' = GetOrCreateReadStream(sourceId)
       /\ fileIds' = IF reuse THEN fileIds ELSE fileIds \cup {nextId}
       /\ fileIdsByName' =
            IF reuse THEN fileIdsByName ELSE Put(fileIdsByName, UndefinedName, nextId)
       /\ nextId' = IF reuse THEN nextId ELSE nextId + 1
       /\ last' = Settled([Call("copyFile", UndefinedName, sourceId) EXCEPT
                               !.target = targetId], "TypeError")
       /\ hist' = HistRead(sourceId)
       /\ UNCHANGED <<fileNames, fileHashes, fileHashObjects, writeStreams, disk,
                      zombies, calls, deleted, ctl>>

\* what the promise of a call is resolved with: the id (createNewEmptyFile,
\* writeFile), the hash (updateHash), or nothing.  copyFile has no return
\* statement.
NoValue == [defined |-> FALSE, id |-> NoId, hash |-> <<>>]
ResolvedWith(c) ==
    IF c.op \in {"create", "writeFile"} THEN [NoValue EXCEPT !.defined = TRUE, !.id = c.id]
    ELSE IF c.op = "updateHash" THEN [NoValue EXCEPT !.defined = TRUE, !.hash = c.data]
    ELSE NoValue

\* ------------------------------------------------------------- deleteFile
\* the synchronous part: join(rootDirectory, fileNames[id]) and unlink()
DeleteFile(id) ==
    /\ budget > 0
    /\ budget' = budget - 1
    /\ IF id \notin DOMAIN fileNames
       THEN \* path.join throws a TypeError inside the executor: the promise rejects
            /\ last' = Settled(Call("delete", "", id), "TypeError")
            /\ UNCHANGED calls
       ELSE /\ calls' = calls \cup {[Call("delete", fileNames[id], id) EXCEPT !.tok = NewTok]}
            /\ last' = NoCall
    /\ UNCHANGED <<reg, env, hist, deleted, ctl>>

\* unlink(path): the streams that have the file open keep the removed file
UnlinkStream(s, name) ==
    IF s.name = name /\ s.opened THEN [s EXCEPT !.orphan = TRUE] ELSE s
UnlinkStreams(f, name) == [x \in DOMAIN f |-> UnlinkStream(f[x], name)]

DeleteFileIds(id) == fileIds \ {id}
DeleteFileNames(id) == Del(fileNames, id)
DeleteFileIdsByName_keep(id) == fileIdsByName
DeleteFileIdsByName(id) ==
    IF id \in DOMAIN fileNames THEN Del(fileIdsByName, fileNames[id]) ELSE fileIdsByName
DeleteFileHashes_keep(id) == CloseHashes(Streams, id)
DeleteFileHashes(id) == Del(CloseHashes(Streams, id), id)
\* "this.close(id)" in the callback of unlink
DeleteWriteStreams_open(id) == writeStreams
DeleteWriteStreams(id) == CloseWriteStreams(Streams, id)

\* unlink completed and its callback ran
UnlinkDone(c) ==
    /\ c \in calls /\ c.op = "delete"
    /\ disk' = Del(disk, c.name)
    /\ zombies' = CloseZombies(UnlinkStreams(zombies, c.name),
                            UnlinkStreams(writeStreams, c.name), c.id)
    /\ writeStreams' = DeleteWriteStreams(c.id)
    /\ readStreams' = CloseReadStreams(Streams, c.id)
    /\ fileHashObjects' = CloseHashObjects(Streams, c.id)
    /\ fileIdsByName' = DeleteFileIdsByName(c.id)
    /\ fileNames' = DeleteFileNames(c.id)
    /\ fileHashes' = DeleteFileHashes(c.id)
    /\ fileIds' = DeleteFileIds(c.id)
    /\ calls' = CloseReaders(c.id) \ {c}
    \* reject(e) when unlink failed; the cleanup runs all the same
    /\ last' = Settled(c, IF c.name \in DOMAIN disk THEN "ok" ELSE "ENOENT")
    /\ hist' = Del(hist, c.id)
    /\ deleted' = deleted \cup {c.id}
    /\ UNCHANGED <<nextId, budget, ctl>>

\* unlink failed for a reason of the file system (no permission, a busy
\* file): the file stays, the callback rejects and goes on to the cleanup
UnlinkError == "EACCES"
UnlinkFails_returns(c) ==
    /\ c \in calls /\ c.op = "delete"
    /\ calls' = calls \ {c}
    /\ last' = Settled(c, UnlinkError)
    /\ UNCHANGED <<reg, env, hist, deleted, budget, ctl>>
UnlinkFails(c) ==
    /\ c \in calls /\ c.op = "delete"
    /\ zombies' = CloseZombies(zombies, writeStreams, c.id)
    /\ writeStreams' = DeleteWriteStreams(c.id)
    /\ readStreams' = CloseReadStreams(Streams, c.id)
    /\ fileHashObjects' = CloseHashObjects(Streams, c.id)
    /\ fileIdsByName' = DeleteFileIdsByName(c.id)
    /\ fileNames' = DeleteFileNames(c.id)
    /\ fileHashes' = DeleteFileHashes(c.id)
    /\ fileIds' = DeleteFileIds(c.id)
    /\ calls' = CloseReaders(c.id) \ {c}
    /\ last' = Settled(c, UnlinkError)
    /\ hist' = Del(hist, c.id)
    /\ deleted' = deleted \cup {c.id}
    /\ UNCHANGED <<disk, nextId, budget, ctl>>

\* ------------------------------------------------------------- FileStoreControl
\* the 'upload' listener up to "await this.fileStore.createNewEmptyFile(fileName)"
UploadHandler ==
    /\ c2s # <<>> /\ Head(c2s).id = NoId
    /\ LET fileName == Head(c2s).payload.fileName
       IN CreateNewEmptyFile(fileName, Waiter("upload", 0, CreateId(fileName)))
    /\ c2s' = Tail(c2s)
    /\ UNCHANGED <<readStreams, api, listeners, dataHandlers, nextHandler, s2c,
                   client, seen>>

\* "args[0] && !isEmptyObject(args[0]) && args[0].data"
IsChunk(x) == x.defined /\ ~isEmptyObject(x) /\ x.data # <<>>

\* what the data handlers of one event read and write
Handling ==
    [streams |-> Streams, listeners |-> listeners, s2c |-> s2c, seen |-> seen]

\* the chunk branch up to its await; when write rejects at once, the catch
\* block as well
ChunkHandler(st, fileId, data) ==
    IF fileId \in DOMAIN st.streams.writeStreams
    THEN [st EXCEPT !.streams.writeStreams =
                       StreamWrite(@, fileId, data, Waiter("session", 0, fileId))]
    ELSE [st EXCEPT !.s2c = Append(@, Msg(fileId, CodePayload(2))),
                    !.seen.replies = @ + 1]

\* s.off() with no event name: every listener of every event is removed
Off_all(ls, fileId, handler) == [k \in DOMAIN ls |-> <<>>]
\* s.off(event, listener) removes the listener where it is registered
Off(ls, fileId, handler) ==
    [ls EXCEPT ![fileId] = SelectSeq(@, LAMBDA h : h # handler)]

\* the end-of-stream branch
EosHandler(st, fileId) ==
    [st EXCEPT !.streams = CloseStreams(@, fileId),
               !.listeners = Off(@, fileId, dataHandlers[fileId]),
               !.s2c = Append(@, Msg(fileId, Undefined))]

\* this.dataHandlers[fileId], the closure over fileId
DataHandler(st, fileId, x) ==
    IF IsChunk(x) THEN ChunkHandler(st, fileId, x.data) ELSE EosHandler(st, fileId)

\* the socket calls the listeners registered when the event arrived, in the
\* order in which they were added
RECURSIVE Emit(_, _, _, _)
Emit(st, hs, fileId, x) ==
    IF hs = <<>> THEN st
    ELSE Emit(DataHandler(st, fileId, x), Tail(hs), fileId, x)

\* an `upload-${fileId}` event arrives at the server
DataHandlers ==
    /\ c2s # <<>> /\ Head(c2s).id # NoId
    /\ LET m == Head(c2s)
           hs == Listeners(m.id)
           st == Emit(Handling, hs, m.id, m.payload)
       IN /\ SetStreams(st.streams)
          /\ listeners' = st.listeners
          /\ s2c' = st.s2c
          /\ seen' = IF hs # <<>> /\ IsChunk(m.payload)
                     THEN [st.seen EXCEPT !.chunks = @ + 1] ELSE st.seen
          /\ calls' = IF hs # <<>> /\ ~IsChunk(m.payload)
                      THEN CloseReaders(m.id) ELSE calls
    /\ c2s' = Tail(c2s)
    /\ UNCHANGED <<fileIds, fileNames, fileIdsByName, disk, nextId, last, hist,
                   deleted, budget, dataHandlers, nextHandler, client>>

\* ------------------------------------------------------------- the caller
\* A caller that awaits each call before it makes the next one, as the
\* tests of FileStore.js do.
Next ==
    \/ Running /\ Idle /\ \E n \in Names : Create(n)
    \/ Running /\ Idle /\ \E n \in Names, input \in Inputs : WriteFile(n, input)
    \/ Running /\ Idle /\ \E id \in 1..MaxIds, data \in Chunks : Write(id, data)
    \/ Running /\ Idle /\ \E id \in 1..MaxIds : Close(id)
    \/ Running /\ Idle /\ CloseAll
    \/ Running /\ Idle /\ \E id \in 1..MaxIds : ReadFile(id)
    \/ Running /\ Idle /\ \E id \in 1..MaxIds : UpdateHash(id)
    \/ Running /\ Idle /\ \E id \in 1..MaxIds : GetStream(id)
    \/ Running /\ Idle /\ \E id \in 1..MaxIds : DeleteFile(id)
    \/ Running /\ \E id \in DOMAIN writeStreams : OpenWrite(id)
    \/ Running /\ \E id \in DOMAIN writeStreams : WriteDone(id)
    \/ Running /\ \E j \in DOMAIN zombies : ZombieWriteDone(j)
    \/ Running /\ \E id \in DOMAIN readStreams : ReadOpen(id)
    \/ Running /\ \E id \in DOMAIN readStreams : ReadChunk(id)
    \/ Running /\ \E c \in calls : InputData(c)
    \/ Running /\ \E c \in calls : InputEnd(c)
    \/ Running /\ \E c \in calls : UnlinkDone(c)
    \/ \E id \in DOMAIN writeStreams : OpenWriteFails(id)
    \/ \E id \in DOMAIN writeStreams : WriteStreamFails(id)

Spec == Init /\ [][Next]_vars

\* ------------------------------------------------------------- toString, fromString
\* "this.rootDirectory = rootDirectory || '/tmp'"
RootDirectory == "/tmp"

\* the FileStore object
Registry ==
    [rootDirectory |-> RootDirectory, fileIds |-> fileIds, fileNames |-> fileNames,
     fileIdsByName |-> fileIdsByName, fileHashes |-> fileHashes,
     fileHashObjects |-> fileHashObjects, readStreams |-> readStreams,
     writeStreams |-> writeStreams]

\* [...fileIds]: the ids in the order in which they were added, which is
\* the order in which they were made
RECURSIVE Spread(_)
Spread(ids) ==
    IF ids = {} THEN <<>>
    ELSE LET id == CHOOSE x \in ids : \A y \in ids : x <= y
         IN <<id>> \o Spread(ids \ {id})

\* JSON text of an object whose keys are ids: its "key": value pairs
Entries(f) == [k \in 1..Cardinality(DOMAIN f) |->
                 [key |-> Spread(DOMAIN f)[k], value |-> f[Spread(DOMAIN f)[k]]]]
\* JSON text of _fileIdsByName: a name was added when its id was made
RECURSIVE EntriesOf(_, _)
EntriesOf(f, names) ==
    IF names = {} THEN <<>>
    ELSE LET n == CHOOSE x \in names : \A y \in names : f[x] <= f[y]
         IN <<[key |-> n, value |-> f[n]]>> \o EntriesOf(f, names \ {n})
EntriesByName(f) == EntriesOf(f, DOMAIN f)
\* JSON.parse of such a text
FromEntries(es) ==
    [x \in {es[k].key : k \in DOMAIN es} |->
        es[CHOOSE k \in DOMAIN es : es[k].key = x].value]

\* toString(): the JSON text, as the value of each of its keys
toString(R) ==
    [rootDirectory |-> R.rootDirectory,
     fileIds |-> Spread(R.fileIds),
     fileNames |-> Entries(R.fileNames),
     fileHashes |-> Entries(R.fileHashes),
     size |-> Cardinality(R.fileIds),
     numberOfReadStreams |-> Cardinality(DOMAIN R.readStreams),
     numberOfWriteStreams |-> Cardinality(DOMAIN R.writeStreams),
     fileIdsByName |-> EntriesByName(R.fileIdsByName)]

\* FileStore.fromString(json): a new FileStore with the four fields of the text
fromString_noIndex(json) ==
    [rootDirectory |-> json.rootDirectory,
     fileIds |-> {json.fileIds[k] : k \in DOMAIN json.fileIds},
     fileNames |-> FromEntries(json.fileNames),
     fileIdsByName |-> EmptyMap,
     fileHashes |-> FromEntries(json.fileHashes),
     fileHashObjects |-> EmptyMap, readStreams |-> EmptyMap,
     writeStreams |-> EmptyMap]
fromString(json) ==
    [rootDirectory |-> json.rootDirectory,
     fileIds |-> {json.fileIds[k] : k \in DOMAIN json.fileIds},
     fileNames |-> FromEntries(json.fileNames),
     fileIdsByName |-> FromEntries(json.fileIdsByName),
     fileHashes |-> FromEntries(json.fileHashes),
     fileHashObjects |-> EmptyMap, readStreams |-> EmptyMap,
     writeStreams |-> EmptyMap]

\* the streams of the object that is given up go on with what they hold
RECURSIVE Abandon(_, _, _)
Abandon(zs, streams, ids) ==
    IF ids = {} THEN zs
    ELSE LET id == CHOOSE x \in ids : \A y \in ids : x <= y
         IN Abandon(DropStream(zs, streams[id]), streams, ids \ {id})

\* "it.toString()": reads the registry
Serialize ==
    /\ budget > 0
    /\ budget' = budget - 1
    /\ last' = Settled(Call("toString", "", NoId), "ok")
    /\ UNCHANGED <<reg, env, calls, hist, deleted, ctl>>

\* "it = FileStore.fromString(it.toString())": the caller goes on with the
\* registry made from the snapshot
Restore ==
    LET R == fromString(toString(Registry))
    IN /\ budget > 0
       /\ budget' = budget - 1
       /\ Len(Abandon(zombies, writeStreams, DOMAIN writeStreams)) <= MaxZombies
       /\ fileIds' = R.fileIds
       /\ fileNames' = R.fileNames
       /\ fileIdsByName' = R.fileIdsByName
       /\ fileHashes' = R.fileHashes
       /\ fileHashObjects' = R.fileHashObjects
       /\ readStreams' = R.readStreams
       /\ writeStreams' = R.writeStreams
       /\ zombies' = Abandon(zombies, writeStreams, DOMAIN writeStreams)
       /\ last' = Settled(Call("fromString", "", NoId), "ok")
       /\ hist' = EmptyMap
       /\ UNCHANGED <<disk, nextId, calls, deleted, ctl>>

\* ------------------------------------------------------------- a store of two files
\* The same caller with two file names, so that closeAll finds more than
\* one id in fileIds.  It awaits every create and write, so a stream has
\* nothing left to do when it is ended.
TwoNames == {"f", "g"}

NextClose ==
    \/ Running /\ Idle /\ \E n \in TwoNames : Create(n)
    \/ Running /\ Idle /\ \E id \in 1..MaxIds, data \in Chunks : Write(id, data)
    \/ Running /\ Idle /\ \E id \in 1..MaxIds : Close(id)
    \/ Running /\ Idle /\ CloseAll
    \/ Running /\ Idle /\ \E id \in 1..MaxIds : ReadFile(id)
    \/ Running /\ \E id \in DOMAIN writeStreams : OpenWrite(id)
    \/ Running /\ \E id \in DOMAIN writeStreams : WriteDone(id)
    \/ Running /\ \E id \in DOMAIN readStreams : ReadOpen(id)
    \/ Running /\ \E id \in DOMAIN readStreams : ReadChunk(id)

SpecClose == Init /\ [][NextClose]_vars

\* a caller that awaits each call but deleteFile, and a file system that
\* may refuse to unlink
NextDelete ==
    \/ Running /\ Idle /\ \E n \in Names : Create(n)
    \/ Running /\ Idle /\ \E id \in 1..MaxIds, data \in Chunks : Write(id, data)
    \/ Running /\ Idle /\ \E id \in 1..MaxIds : Close(id)
    \/ Running /\ Idle /\ \E id \in 1..MaxIds : ReadFile(id)
    \/ Running /\ \E id \in 1..MaxIds : DeleteFile(id)
    \/ Running /\ \E id \in DOMAIN writeStreams : OpenWrite(id)
    \/ Running /\ \E id \in DOMAIN writeStreams : WriteDone(id)
    \/ Running /\ \E id \in DOMAIN readStreams : ReadOpen(id)
    \/ Running /\ \E id \in DOMAIN readStreams : ReadChunk(id)
    \/ Running /\ \E c \in calls : UnlinkDone(c)
    \/ Running /\ \E c \in calls : UnlinkFails(c)

SpecDelete == Init /\ [][NextDelete]_vars

\* callers that do not wait for one another, with two file names
NextOverlap ==
    \/ Running /\ \E n \in TwoNames : Create(n)
    \/ Running /\ \E id \in 1..MaxIds, data \in Chunks : Write(id, data)
    \/ Running /\ \E id \in 1..MaxIds : Close(id)
    \/ Running /\ \E id \in 1..MaxIds : DeleteFile(id)
    \/ Running /\ Restore
    \/ Running /\ \E id \in DOMAIN writeStreams : OpenWrite(id)
    \/ Running /\ \E j \in DOMAIN zombies : ZombieOpen(j)
    \/ Running /\ \E id \in DOMAIN writeStreams : WriteDone(id)
    \/ Running /\ \E j \in DOMAIN zombies : ZombieWriteDone(j)
    \/ Running /\ \E c \in calls : UnlinkDone(c)

SpecOverlap == Init /\ [][NextOverlap]_vars

\* callers of one registry that do not wait for one another, and that
\* read as well
NextHandles ==
    \/ Running /\ \E n \in Names : Create(n)
    \/ Running /\ \E id \in 1..MaxIds, data \in Chunks : Write(id, data)
    \/ Running /\ \E id \in 1..MaxIds : Close(id)
    \/ Running /\ \E id \in 1..MaxIds : DeleteFile(id)
    \/ Running /\ \E id \in 1..MaxIds : ReadFile(id)
    \/ Running /\ \E id \in 1..MaxIds : GetStream(id)
    \/ Running /\ \E id \in DOMAIN writeStreams : OpenWrite(id)
    \/ Running /\ \E j \in DOMAIN zombies : ZombieOpen(j)
    \/ Running /\ \E id \in DOMAIN writeStreams : WriteDone(id)
    \/ Running /\ \E j \in DOMAIN zombies : ZombieWriteDone(j)
    \/ Running /\ \E id \in DOMAIN readStreams : ReadOpen(id)
    \/ Running /\ \E id \in DOMAIN readStreams : ReadChunk(id)
    \/ Running /\ \E c \in calls : UnlinkDone(c)

SpecHandles == Init /\ [][NextHandles]_vars

\* a caller that awaits each call, with two file names, and that may go on
\* with a registry restored from a snapshot
NextRestore ==
    \/ Running /\ Idle /\ \E n \in TwoNames : Create(n)
    \/ Running /\ Idle /\ \E id \in 1..MaxIds, data \in Chunks : Write(id, data)
    \/ Running /\ Idle /\ \E id \in 1..MaxIds : Close(id)
    \/ Running /\ Idle /\ \E id \in 1..MaxIds : DeleteFile(id)
    \/ Running /\ Idle /\ Serialize
    \/ Running /\ Idle /\ Restore
    \/ Running /\ \E id \in DOMAIN writeStreams : OpenWrite(id)
    \/ Running /\ \E id \in DOMAIN writeStreams : WriteDone(id)
    \/ Running /\ \E c \in calls : UnlinkDone(c)

SpecRestore == Init /\ [][NextRestore]_vars

\* the same store and caller, with copyFile from one of its files to the other
NextCopy ==
    \/ Running /\ Idle /\ \E n \in TwoNames : Create(n)
    \/ Running /\ Idle /\ \E id \in 1..MaxIds, data \in Chunks : Write(id, data)
    \/ Running /\ Idle /\ \E id \in 1..MaxIds : Close(id)
    \/ Running /\ Idle /\ \E id \in 1..MaxIds : ReadFile(id)
    \/ Running /\ Idle /\ \E sourceId, targetId \in fileIds : CopyFile(sourceId, targetId)
    \/ Running /\ Idle /\ \E sourceId, targetId \in 1..MaxIds :
                              CopyFileUntracked(sourceId, targetId)
    \/ Running /\ \E id \in DOMAIN writeStreams : OpenWrite(id)
    \/ Running /\ \E id \in DOMAIN writeStreams : WriteDone(id)
    \/ Running /\ \E j \in DOMAIN zombies : ZombieWriteDone(j)
    \/ Running /\ \E id \in DOMAIN readStreams : ReadOpen(id)
    \/ Running /\ \E id \in DOMAIN readStreams : ReadChunk(id)

SpecCopy == Init /\ [][NextCopy]_vars

\* ------------------------------------------------------------- test_FileStoreControl
\* The client of the test: it sends the chunks of "data" one per event it
\* receives on `upload-${fileId}`, then {}, and reads the file when the
\* next event arrives.  "list" is the array as the test declares it.
TestFile == "mycoolfile"
TestData ==
    <<DataPayload(<<"who", "\n">>), DataPayload(<<"what", "\n">>),
      DataPayload(<<"when", "\n">>), DataPayload(<<"where", "\n">>),
      DataPayload(<<"why">>), EmptyObject>>
\* other arrays of the same form: chunks, then {}
TestLists ==
    {TestData} \cup
    {[j \in 1..Len(cs) |-> DataPayload(cs[j])] \o <<EmptyObject>> :
        cs \in UNION {[1..n -> Chunks] : n \in 1..MaxChunks}}

RECURSIVE Expected(_)
\* "expected": the chunks of the array, joined
Expected(list) ==
    IF list = <<>> THEN <<>> ELSE Head(list).data \o Expected(Tail(list))

\* client.on('upload', ...) with code 0: register the listener of
\* `upload-${fileId}`, send the first element of data
ClientUpload ==
    /\ s2c # <<>> /\ Head(s2c).id = NoId
    /\ ~client.done
    /\ LET x == Head(s2c).payload
       IN IF x.code = 0
          THEN /\ client' = [client EXCEPT !.fileId = x.fileId, !.on = TRUE,
                                           !.data = Tail(client.list),
                                           !.readyForTest = FALSE,
                                           !.sent = @ + 1]
               /\ c2s' = Append(c2s, Msg(x.fileId, Head(client.list)))
          ELSE UNCHANGED <<client, c2s>>
    /\ s2c' = Tail(s2c)
    /\ UNCHANGED <<reg, env, api, listeners, dataHandlers, nextHandler, seen>>

\* "if (isEmptyObject(next)) readyForTest = true"
ClientReady_always(next) == TRUE
ClientReady(next) == isEmptyObject(next)

\* existsSync(path), readFileSync(path), pass = expected === actual, exit
ClientTest ==
    IF TestFile \in DOMAIN disk
    THEN [client EXCEPT !.acks = @ + 1, !.done = TRUE,
                        !.actual = disk[TestFile],
                        !.pass = (Expected(client.list) = disk[TestFile])]
    ELSE [client EXCEPT !.acks = @ + 1]

\* the listener of `upload-${fileId}`
ClientData ==
    /\ s2c # <<>> /\ Head(s2c).id # NoId
    /\ ~client.done
    /\ s2c' = Tail(s2c)
    /\ IF ~(client.on /\ Head(s2c).id = client.fileId)
       THEN UNCHANGED <<client, c2s>>
       ELSE IF client.readyForTest
       THEN client' = ClientTest /\ UNCHANGED c2s
       ELSE LET next == Head(client.data)
            IN /\ client' = [client EXCEPT !.acks = @ + 1, !.data = Tail(@),
                                           !.readyForTest = ClientReady(next),
                                           !.sent = @ + 1]
               /\ c2s' = Append(c2s, Msg(client.fileId, next))
    /\ UNCHANGED <<reg, env, api, listeners, dataHandlers, nextHandler, seen>>

\* the test has run up to its first await: the server listens, the client
\* has sent { fileName: 'mycoolfile' }; the file may be there from earlier
InitTest ==
    /\ InitFileStore
    /\ InitControl
    /\ c2s = <<Msg(NoId, FileNamePayload(TestFile))>>
    /\ client \in {[NoClient EXCEPT !.list = l] : l \in TestLists}
    /\ disk \in {EmptyMap, Put(EmptyMap, TestFile, <<"old">>)}
    /\ calls = {}
    /\ last = NoCall
    /\ hist = EmptyMap
    /\ deleted = {}
    /\ budget = 0
    /\ uncaught = NoError
    /\ InitTools

NextTest ==
    \/ Running /\ UploadHandler
    \/ Running /\ \E id \in DOMAIN writeStreams : OpenWrite(id)
    \/ Running /\ ClientUpload
    \/ Running /\ DataHandlers
    \/ Running /\ \E id \in DOMAIN writeStreams : WriteDone(id)
    \/ Running /\ ClientData

SpecTest == InitTest /\ [][NextTest]_vars

\* ------------------------------------------------------------- any client
\* A client that follows no protocol: it may send { fileName } on 'upload'
\* at any time and, once it has been told a fileId, any argument on
\* `upload-${fileId}`, whether or not the last message was answered.
Payloads == {Undefined, EmptyObject, DataPayload(<<"a">>)}

ClientSendUpload(fileName) ==
    /\ client.msgs < MaxMsgs
    /\ c2s' = Append(c2s, Msg(NoId, FileNamePayload(fileName)))
    /\ client' = [client EXCEPT !.msgs = @ + 1]
    /\ UNCHANGED <<reg, env, api, listeners, dataHandlers, nextHandler, s2c, seen>>

ClientSendData(x) ==
    /\ client.msgs < MaxMsgs
    /\ client.fileId # NoId
    /\ c2s' = Append(c2s, Msg(client.fileId, x))
    /\ client' = [client EXCEPT !.msgs = @ + 1, !.sent = @ + 1]
    /\ UNCHANGED <<reg, env, api, listeners, dataHandlers, nextHandler, s2c, seen>>

\* what the server emitted arrives
ClientReceive ==
    /\ s2c # <<>>
    /\ s2c' = Tail(s2c)
    /\ client' = IF Head(s2c).id = NoId
                 THEN [client EXCEPT !.fileId = Head(s2c).payload.fileId]
                 ELSE [client EXCEPT !.acks = @ + 1]
    /\ UNCHANGED <<reg, env, api, listeners, dataHandlers, nextHandler, c2s, seen>>

NextControl ==
    \/ Remote /\ \E n \in Names : ClientSendUpload(n)
    \/ Remote /\ \E x \in Payloads : ClientSendData(x)
    \/ Remote /\ ClientReceive
    \/ Running /\ UploadHandler
    \/ Running /\ DataHandlers
    \/ Running /\ \E id \in DOMAIN writeStreams : OpenWrite(id)
    \/ Running /\ \E j \in DOMAIN zombies : ZombieOpen(j)
    \/ Running /\ \E id \in DOMAIN writeStreams : WriteDone(id)
    \/ Running /\ \E j \in DOMAIN zombies : ZombieWriteDone(j)
    \/ \E id \in DOMAIN writeStreams : OpenWriteFails(id)
    \/ \E j \in DOMAIN zombies : ZombieOpenFails(j)
    \/ \E id \in DOMAIN writeStreams : WriteStreamFails(id)
    \/ \E j \in DOMAIN zombies : ZombieWriteFails(j)

SpecControl == Init /\ [][NextControl]_vars

\* ------------------------------------------------------------- claims
\* "hist" records, for each id, what the caller did to it since the id was
\* last returned by createNewEmptyFile or writeFile: phase "fresh" (returned,
\* then written by awaited write calls only), "closed", "read"; "data" is
\* what the caller wrote.

\* C1 (as claimed): after write(id,c1); ...; write(id,cn); close(id) on an id
\* just returned by createNewEmptyFile, fileHashes[id] is the digest of
\* c1..cn concatenated.
C1_HashEquivalence ==
    (/\ last.op = "close"
     /\ last.id \in DOMAIN hist
     /\ hist[last.id].phase = "closed"
     /\ hist[last.id].via = "write"
     /\ hist[last.id].data # <<>>)
    => /\ last.id \in DOMAIN fileHashes
       /\ fileHashes[last.id] = Digest(hist[last.id].data)

\* C2 (as claimed): readFile on an id that was written and closed completes
\* and delivers exactly the bytes written.
C2_RoundTrip ==
    /\ (last.op = "readFile" /\ last.hasExpect)
       => (last.result = "ok" /\ last.sink = last.expect)
    /\ \A c \in calls :
          (c.op = "readFile" /\ c.hasExpect)
          => (c.id \in DOMAIN readStreams /\ ~readStreams[c.id].ended)

\* C3 (as claimed): createNewEmptyFile on a name already in the registry
\* returns the id the name maps to, adds no id, and the file holds nothing
\* that was written before the call.
C3_ReuseTruncates ==
    (last.op = "create" /\ last.reused)
    => /\ last.name \in DOMAIN fileIdsByName
       /\ fileIdsByName[last.name] = last.id
       /\ Cardinality(fileIds) = last.size
       /\ last.id \in DOMAIN writeStreams
       /\ last.name \in DOMAIN disk
       /\ disk[last.name] = <<>>

\* C4: a close(id) called when the call before it was a close(id) that
\* returned raises no error and changes neither the hashes, nor the stream
\* maps, nor the accumulators.
C4_IdempotentClose ==
    [][(/\ last.op = "close" /\ last.result = "ok"
        /\ budget' = budget - 1
        /\ last'.op = "close" /\ last'.id = last.id)
       => /\ last'.result = "ok"
          /\ fileHashes' = fileHashes
          /\ fileHashObjects' = fileHashObjects
          /\ readStreams' = readStreams
          /\ writeStreams' = writeStreams]_vars
C4_Witness ==
    /\ last.op = "close" /\ last.repeat
    /\ last.id \in DOMAIN fileHashes

\* C5: once deleteFile(id) has completed without error for a tracked id,
\* no index, stream map or accumulator map holds the id, and the file is gone.
C5_DeleteRemovesAll ==
    (last.op = "delete" /\ last.result = "ok")
    => /\ last.id \notin fileIds
       /\ last.id \notin DOMAIN fileNames
       /\ \A n \in DOMAIN fileIdsByName : fileIdsByName[n] # last.id
       /\ last.name \notin DOMAIN fileIdsByName
       /\ last.id \notin DOMAIN fileHashes
       /\ last.id \notin DOMAIN readStreams
       /\ last.id \notin DOMAIN writeStreams
       /\ last.id \notin DOMAIN fileHashObjects
       /\ last.name \notin DOMAIN disk
C5_Witness ==
    /\ last.op = "delete" /\ last.result = "ok"
    /\ last.id \in deleted
    /\ zombies # <<>>

C7_UploadContent ==
    client.done
    => /\ client.actual = Expected(client.list)
       /\ client.pass
       /\ client.data = <<>>
C7_Witness ==
    /\ client.done /\ client.list = TestData
    /\ client.actual = <<"who", "\n", "what", "\n", "when", "\n", "where", "\n", "why">>

\* C8 (as claimed): with the five chunks of the test, the client observes
\* exactly five events on the chunk stream.
C8_Original ==
    (client.done /\ client.list = TestData) => client.acks = 5
\* C8 (amended): the client observes one event per chunk and one for the
\* end of stream, six with the five chunks of the test, each after the
\* message it answers was sent.
C8_AckCount ==
    /\ client.acks <= client.sent
    /\ client.done => client.acks = Len(client.list)
    /\ (client.done /\ client.list = TestData) => client.acks = 6
C8_Witness ==
    /\ client.done /\ client.list = TestData
    /\ client.acks = 6 /\ client.sent = 6

\* the chunks given to write by a data handler and not yet written
SessionWrites(stream) ==
    Cardinality({j \in DOMAIN stream.buf : stream.buf[j].who.kind = "session"})
RECURSIVE SumWrites(_, _)
SumWrites(streams, keys) ==
    IF keys = {} THEN 0
    ELSE LET k == CHOOSE x \in keys : TRUE
         IN SessionWrites(streams[k]) + SumWrites(streams, keys \ {k})
PendingWrites ==
    SumWrites(zombies, DOMAIN zombies) + SumWrites(writeStreams, DOMAIN writeStreams)

\* C9 (as claimed): each chunk message that reaches a session has been
\* answered once or its write is still pending, and no more
\* acknowledgments were emitted than writes completed.
C9_PerChunkAck ==
    /\ seen.replies + PendingWrites = seen.chunks
    /\ seen.acks <= seen.written

\* C10 (as claimed): when { fileId } is emitted on 'upload', fileId is the
\* id the registry maps to the file's name, the registry holds a write
\* stream for it, and a data handler is registered for it.
C10_TransferStart ==
    [][(Len(s2c') > Len(s2c) /\ s2c'[Len(s2c')].id = NoId)
       => LET fileId == s2c'[Len(s2c')].payload.fileId
          IN /\ fileId \in DOMAIN fileNames'
             /\ fileIdsByName'[fileNames'[fileId]] = fileId
             /\ fileId \in DOMAIN writeStreams'
             /\ fileId \in DOMAIN listeners'
             /\ listeners'[fileId] # <<>>]_vars

\* the open of a write stream failed in this step, and the one waiting for
\* it was of the given kind
OpenFailedFor(kind) ==
    /\ uncaught = NoError
    /\ uncaught'.syscall = "open"
    /\ uncaught'.waiter.kind = kind

\* C11 (as claimed): when the file of a BeginUpload cannot be opened for
\* write, a failure notification with code 1 is emitted on 'upload', no
\* data handler is registered, and afterwards the registry holds no id, no
\* name mapping and no write stream for the file name.
C11_OpenFailure ==
    [][OpenFailedFor("upload") =>
         /\ s2c' = Append(s2c, Msg(NoId, CodePayload(1)))
         /\ listeners' = listeners
         /\ uncaught'.name \notin DOMAIN fileIdsByName'
         /\ \A id \in fileIds' : fileNames'[id] # uncaught'.name
         /\ \A id \in DOMAIN writeStreams' : writeStreams'[id].name # uncaught'.name]_vars

\* C12 (as claimed): a call of createNewEmptyFile does not stay pending
\* when the open of its stream has failed: the call has completed with the
\* error CreateFailure.
C12_CreateCompletes ==
    uncaught.syscall = "open" /\ uncaught.waiter.kind = "create" =>
        /\ \A c \in calls : c.tok # uncaught.waiter.tok
        /\ last.op = "create" /\ last.result = "CreateFailure"

\* what the server emitted in this step
Emitted == SubSeq(s2c', Len(s2c) + 1, Len(s2c'))
ChunkFailureEmitted ==
    \E k \in DOMAIN Emitted : Emitted[k].id # NoId /\ Emitted[k].payload.code = 2

EosHandled ==
    /\ uncaught = NoError /\ uncaught' = NoError
    /\ c2s # <<>> /\ c2s' = Tail(c2s)
    /\ Head(c2s).id # NoId
    /\ ~IsChunk(Head(c2s).payload)
    /\ Listeners(Head(c2s).id) # <<>>

\* C14 (as claimed): when an end-of-stream message is handled, the id has
\* no write stream afterwards, no data handler remains registered for the
\* event, and exactly one acknowledgment without payload is emitted.
C14_EndOfStream ==
    [][EosHandled =>
         LET fileId == Head(c2s).id
         IN /\ fileId \notin DOMAIN writeStreams'
            /\ fileId \in DOMAIN listeners' => listeners'[fileId] = <<>>
            /\ Emitted = <<Msg(fileId, Undefined)>>]_vars

\* the caller calls the operation op for id in this step: the call settles
\* at once or becomes one of the outstanding calls
Called(op, id) ==
    /\ budget' = budget - 1
    /\ \/ last'.op = op /\ last'.id = id
       \/ \E c \in calls' \ calls : c.op = op /\ c.id = id
WriteCalled(id) == Called("write", id)

\* C15: a call write(id, data) made while the registry holds no write
\* stream for id (an id it never gave out, or one that was closed or
\* deleted) fails with the error Unknown FileId, and the registry, the
\* files and the streams still at work are as before the call.
C15_WriteWithoutStream ==
    [][\A id \in 1..MaxIds :
         WriteCalled(id) /\ id \notin DOMAIN writeStreams =>
            /\ last'.op = "write" /\ last'.result = "UnknownFileId"
            /\ calls' = calls
            /\ UNCHANGED <<reg, env>>]_vars

\* write was called for an id the registry tracks and whose stream has been
\* closed, or for an id that was deleted
C15_Witness ==
    /\ last.op = "write" /\ last.result = "UnknownFileId"
    /\ last.id \in fileIds \/ last.id \in deleted

NoStreams(id) ==
    /\ id \notin DOMAIN readStreams'
    /\ id \notin DOMAIN writeStreams'
    /\ id \notin DOMAIN fileHashObjects'

\* C16: close(id) and closeAll() complete without error; after close(id)
\* the registry holds no read stream, no write stream and no hash object
\* for id, and after closeAll() it holds none for any id of fileIds.
C16_CloseLeavesNoStream ==
    [][budget' = budget - 1 =>
         /\ \A id \in 1..MaxIds :
              Close(id) => last'.result = "ok" /\ NoStreams(id)
         /\ CloseAll => last'.result = "ok" /\ \A id \in fileIds' : NoStreams(id)]_vars

\* closeAll() was called with two ids in fileIds, and both have a hash
C16_Witness ==
    /\ last.op = "closeAll" /\ last.result = "ok"
    /\ Cardinality(fileIds) = 2
    /\ \A id \in fileIds : id \in DOMAIN fileHashes

\* the promise of a call of the given operation is resolved in this step
Resolves(op) == last.op # op /\ last'.op = op /\ last'.result = "ok"
FileContent(name) == IF name \in DOMAIN disk' THEN disk'[name] ELSE <<>>

\* C17 (as claimed): when writeFile(fileName, inputStream) completes, the
\* id it returns is the one mapped to fileName, both ways, the content of
\* the file is all that the input stream delivered, and the hash recorded
\* for the id is the digest of that content.
C17_WriteFile ==
    [][Resolves("writeFile") =>
         /\ last'.id \in fileIds'
         /\ fileNames'[last'.id] = last'.name
         /\ fileIdsByName'[last'.name] = last'.id
         /\ FileContent(last'.name) = last'.data
         /\ fileHashes'[last'.id] = Digest(last'.data)]_vars

UpdateHashCalled(id) == Called("updateHash", id)

\* C18 (as claimed): updateHash(id) for an id of fileIds returns: the stream
\* it listens to has not ended before the call; what it returns is the
\* digest of the whole content of the file, which is then the hash stored for
\* the id, and the hash objects are untouched.  For an id that is not in
\* fileIds it fails and the registry is as before.
C18_UpdateHash ==
    [][/\ \A c \in calls' : c.op = "updateHash" => ~readStreams'[c.id].ended
       /\ Resolves("updateHash") =>
            /\ last'.data = Digest(FileContent(last'.name))
            /\ fileHashes'[last'.id] = last'.data
            /\ fileHashObjects' = fileHashObjects
       /\ \A id \in 1..MaxIds :
            UpdateHashCalled(id) /\ id \notin fileIds =>
               /\ last'.result = "UnknownFileId"
               /\ UNCHANGED reg]_vars

Content(name) == IF name \in DOMAIN disk THEN disk[name] ELSE <<>>
Copying == {c \in calls : c.op = "copyFile"}

\* C20 (as claimed): copyFile completes: the read stream it reads the
\* source from has not ended before; when it completes, the file of the
\* target holds the complete content of the file of the source, and the hash
\* recorded for the target is the digest of that content; and while it runs
\* fileIds, fileNames, _fileIdsByName and the file of the source do not change.
C20_CopyFile ==
    [][/\ \A c \in calls' : c.op = "copyFile" => ~readStreams'[c.id].ended
       /\ Resolves("copyFile") =>
            /\ FileContent(fileNames'[last'.target]) = FileContent(fileNames'[last'.id])
            /\ fileHashes'[last'.target] = Digest(FileContent(fileNames'[last'.id]))
       /\ \A c \in Copying \cup (calls' \cap {d \in calls' : d.op = "copyFile"}) :
            /\ UNCHANGED <<fileIds, fileNames, fileIdsByName>>
            /\ FileContent(fileNames[c.id]) = Content(fileNames[c.id])]_vars

\* C21 (as claimed): a call of copyFile for a source the registry can read
\* is resolved with the id of the destination file, whether the registry
\* tracked the destination before the call or not; the id is in fileIds.
C21_CopyReturnsId ==
    [][last.op # "copyFile" /\ last'.op = "copyFile" =>
         /\ last'.result = "ok"
         /\ ResolvedWith(last').defined
         /\ ResolvedWith(last').id \in fileIds'
         /\ fileNames'[ResolvedWith(last').id] = last'.name]_vars

\* ------------------------------------------------------------- C22
\* the registry made from the snapshot of the registry
Restored == fromString(toString(Registry))
NoOpenStreams(R) == R.readStreams = EmptyMap /\ R.writeStreams = EmptyMap

\* C22: the registry made from the snapshot of a registry R has R's root
\* directory, id set, id-to-name map, name-to-id map and hash map, and no
\* read stream, write stream or hash object; when R has no open stream its
\* snapshot is the same text as R's; and taking the snapshot leaves R as
\* it was.
C22_Snapshot ==
    /\ [](/\ Restored.rootDirectory = Registry.rootDirectory
          /\ Restored.fileIds = Registry.fileIds
          /\ Restored.fileNames = Registry.fileNames
          /\ Restored.fileIdsByName = Registry.fileIdsByName
          /\ Restored.fileHashes = Registry.fileHashes
          /\ NoOpenStreams(Restored)
          /\ Restored.fileHashObjects = EmptyMap
          /\ (NoOpenStreams(Registry) => toString(Restored) = toString(Registry)))
    /\ [][last'.op = "toString" /\ budget' # budget => UNCHANGED reg]_vars

\* a registry of two files, one with a hash, restored from its snapshot
C22_Witness ==
    /\ last.op = "fromString"
    /\ Cardinality(fileIds) = 2
    /\ fileHashes # EmptyMap
    /\ Cardinality(DOMAIN fileIdsByName) = 2

\* ------------------------------------------------------------- C23
\* the callback of unlink ran with an error for the deleteFile of id
UnlinkFailed(id) ==
    /\ \E c \in calls : c.op = "delete" /\ c.id = id /\ c \notin calls'
    /\ last'.op = "delete" /\ last'.id = id
    /\ last'.result \notin {"ok", "TypeError"}

TargetName == "t"
DirNames == {TargetName, "a"}
Paths == UNION {[1..d -> DirNames] : d \in 1..MaxDepth}
Root == <<>>
Parent(p) == SubSeq(p, 1, Len(p) - 1)
\* posix.basename(path)
basename(p) == p[Len(p)]
\* path p is q or below q
Within(p, q) == Len(q) <= Len(p) /\ SubSeq(p, 1, Len(q)) = q

\* a tree: its directories besides the root, and its files
IsTree(t) ==
    /\ \A p \in t.dirs : Parent(p) \in t.dirs \cup {Root}
    /\ \A p \in t.files : p \notin t.dirs /\ Parent(p) \in t.dirs \cup {Root}
\* the sequences that hold each element of S once: readdirSync promises no order
Orderings(S) ==
    {q \in [1..Cardinality(S) -> S] : \A i, j \in DOMAIN q : q[i] = q[j] => i = j}
\* listDirs(dir), in any of the orders readdirSync may give
listDirs(t, dir) == Orderings({p \in t.dirs : Parent(p) = dir})
\* rmSync(dir, { recursive: true, force: true })
rmSync_shallow(t, dir) ==
    [dirs |-> t.dirs \ {dir}, files |-> {p \in t.files : Parent(p) # dir}]
rmSync(t, dir) ==
    [dirs |-> {p \in t.dirs : ~Within(p, dir)},
     files |-> {p \in t.files : ~Within(p, dir)}]

\* ------------------------------------------------------------- rmDirRecursive
\* the trees rmDirRecursive is given: directories of two names, one of
\* them the target name, and files of the target name
RmTrees ==
    {t \in [dirs : SUBSET Paths, files : SUBSET {p \in Paths : basename(p) = TargetName}] :
        IsTree(t)}

\* rmDirRecursive(root, target) was called: "let dir = root"
RmCalled(t) ==
    [pc |-> "call", dirs |-> <<>>, removed |-> {}, listed |-> {}, tree0 |-> t]

InitRm ==
    /\ InitServer
    /\ InitTarget
    /\ tree \in RmTrees
    /\ walk = RmCalled(tree)

\* "const dirs = listDirs(dir)"
RmListRoot ==
    /\ walk.pc = "call"
    /\ \E ds \in listDirs(tree, Root) :
         walk' = [walk EXCEPT !.pc = "loop", !.dirs = ds, !.listed = {Root}]
    /\ UNCHANGED <<reg, env, api, ctl, uncaught, tree, handlers, listening, event>>

\* one turn of "while (dirs.length)"
RmVisit ==
    /\ walk.pc = "loop" /\ walk.dirs # <<>>
    /\ LET dir == Head(walk.dirs)
       IN IF basename(dir) = TargetName
          THEN /\ tree' = rmSync(tree, dir)
               /\ walk' = [walk EXCEPT !.dirs = Tail(walk.dirs),
                                       !.removed = walk.removed \cup {dir}]
          ELSE IF dir \notin tree.dirs
          THEN \* readdirSync throws ENOENT
               /\ walk' = [walk EXCEPT !.pc = "threw", !.dirs = Tail(walk.dirs)]
               /\ UNCHANGED tree
          ELSE /\ \E ds \in listDirs(tree, dir) :
                    walk' = [walk EXCEPT !.dirs = Tail(walk.dirs) \o ds,
                                         !.listed = walk.listed \cup {dir}]
               /\ UNCHANGED tree
    /\ UNCHANGED <<reg, env, api, ctl, uncaught, handlers, listening, event>>

\* the loop ends and rmDirRecursive returns
RmReturn ==
    /\ walk.pc = "loop" /\ walk.dirs = <<>>
    /\ walk' = [walk EXCEPT !.pc = "done"]
    /\ UNCHANGED <<reg, env, api, ctl, uncaught, tree, handlers, listening, event>>

NextRm ==
    \/ RmListRoot
    \/ RmVisit
    \/ RmReturn

\* rmDirRecursive is synchronous: nothing keeps it from its next statement
SpecRm == InitRm /\ [][NextRm]_vars /\ WF_vars(NextRm)

\* ------------------------------------------------------------- C24
\* C24: rmDirRecursive(root, target) on a finite tree returns; when it has,
\* the tree holds no directory below the root that is named target, at
\* any depth; each directory it removed was named target; the
\* directories and files that are gone are those of the subtrees it
\* removed; and it never listed a directory that was in a removed subtree.
C24_RmDirRecursive ==
    /\ <>(walk.pc = "done")
    /\ [](walk.pc = "done" =>
            /\ \A p \in tree.dirs : basename(p) # TargetName
            /\ \A p \in walk.removed : basename(p) = TargetName
            /\ tree.dirs = {p \in walk.tree0.dirs :
                               \A r \in walk.removed : ~Within(p, r)}
            /\ tree.files = {p \in walk.tree0.files :
                               \A r \in walk.removed : ~Within(p, r)})
    /\ [](/\ walk.pc # "threw"
          /\ \A d \in walk.listed, r \in walk.removed : ~Within(d, r))

\* it returned from a tree with a target directory inside a target
\* directory and another one two levels down, leaving a file named target
C24_Witness ==
    /\ walk.pc = "done"
    /\ <<"t", "a", "t">> \in walk.tree0.dirs
    /\ <<"a", "a", "t">> \in walk.tree0.dirs
    /\ <<"a", "t">> \in walk.tree0.files
    /\ walk.removed = {<<"t">>, <<"a", "a", "t">>}
    /\ <<"a", "t">> \in tree.files

\* ------------------------------------------------------------- cpRecursive
\* the trees cpRecursive is given: directories of two names, and files of
\* one name
FileName == "x"
FilePaths == {Append(p, FileName) : p \in {q \in Paths \cup {Root} : Len(q) < MaxDepth}}
CpTrees == {t \in [dirs : SUBSET Paths, files : SUBSET FilePaths] : IsTree(t)}

\* cpRecursive(source, target) was called, with no directory at target:
\* "let s = source, t = target"
CpCalled ==
    [pc |-> "call", sdirs |-> <<>>, tdirs |-> <<>>, target |-> NoTree, error |-> ""]

InitCp ==
    /\ InitServer
    /\ InitTarget
    /\ tree \in CpTrees
    /\ walk = CpCalled

\* listFilesRelative(source)
listFilesRelative(source) == {p \in tree.files : Parent(p) = source}

\* cpFiles(source, target), at the point w of the walk: mkdirSync makes
\* one directory, in a parent that exists; fs has no cpFileSync, so the
\* name is undefined and the call of it for a first file throws
cpFiles(w, source, target) ==
    LET exists == target \in w.target.dirs
        made == IF exists THEN w.target
                ELSE [w.target EXCEPT !.dirs = w.target.dirs \cup {target}]
    IN IF ~exists /\ target # Root /\ Parent(target) \notin w.target.dirs
       THEN [w EXCEPT !.pc = "threw", !.error = "ENOENT"]
       ELSE IF listFilesRelative(source) # {}
       THEN [w EXCEPT !.pc = "threw", !.error = "TypeError", !.target = made]
       ELSE [w EXCEPT !.target = made]

\* "sdirs.map(it => join(t, basename(it)))"
TargetDirs(t, dirs) == [k \in DOMAIN dirs |-> Append(t, basename(dirs[k]))]

\* "cpFiles(s, t); const sdirs = listDirs(s); const tdirs = ..."
CpRoot ==
    /\ walk.pc = "call"
    /\ LET w == cpFiles(walk, Root, Root)
       IN IF w.pc = "threw" THEN walk' = w
          ELSE \E dirs \in listDirs(tree, Root) :
                 walk' = [w EXCEPT !.pc = "loop", !.sdirs = dirs,
                                   !.tdirs = TargetDirs(Root, dirs)]
    /\ UNCHANGED <<reg, env, api, ctl, uncaught, tree, handlers, listening, event>>

\* one turn of "while (sdirs.length)"
CpVisit ==
    /\ walk.pc = "loop" /\ walk.sdirs # <<>> /\ walk.tdirs # <<>>
    /\ LET s == Head(walk.sdirs)
           t == Head(walk.tdirs)
           w == cpFiles([walk EXCEPT !.sdirs = Tail(walk.sdirs),
                                     !.tdirs = Tail(walk.tdirs)], s, t)
       IN IF w.pc = "threw" THEN walk' = w
          ELSE \E dirs \in listDirs(tree, s) :
                 walk' = [w EXCEPT !.sdirs = w.sdirs \o dirs,
                                   !.tdirs = w.tdirs \o TargetDirs(t, dirs)]
    /\ UNCHANGED <<reg, env, api, ctl, uncaught, tree, handlers, listening, event>>

\* the loop ends and cpRecursive returns
CpReturn ==
    /\ walk.pc = "loop" /\ walk.sdirs = <<>>
    /\ walk' = [walk EXCEPT !.pc = "done"]
    /\ UNCHANGED <<reg, env, api, ctl, uncaught, tree, handlers, listening, event>>

NextCp ==
    \/ CpRoot
    \/ CpVisit
    \/ CpReturn

\* cpRecursive is synchronous: nothing keeps it from its next statement
SpecCp == InitCp /\ [][NextCp]_vars /\ WF_vars(NextCp)

\* ------------------------------------------------------------- C25
\* C25: cpRecursive(source, target), with no directory at target, returns;
\* when it has, each file and each directory of the source tree is in the
\* target tree at the same relative path; the two queues are of one
\* length and hold the same relative paths at the same places; and
\* a directory of the target is made when its parent is there.
C25_CpRecursive ==
    /\ <>(walk.pc = "done")
    /\ [](walk.pc = "done" =>
            /\ walk.target.dirs = tree.dirs \cup {Root}
            /\ walk.target.files = tree.files)
    /\ [](walk.pc \in {"loop", "done"} => walk.tdirs = walk.sdirs)
    /\ [](/\ walk.error # "ENOENT"
          /\ \A p \in walk.target.dirs : p = Root \/ Parent(p) \in walk.target.dirs)

\* ------------------------------------------------------------- SmartEventTarget
\* event names: an ordinary one, the empty string, which is a name an
\* event can have and is falsy, and the name of a property that the
\* object this.handlers = {} inherits from Object.prototype
EventNames == {"what", "", "constructor"}
ObjectPrototype == {"constructor"}
Handlers == {"h1", "h2"}
\* an argument that was not given, or null
NoName == "(undefined)"
NoHandler == "(null)"
\* "if (name)"
Truthy(name) == name \notin {NoName, ""}

\* the listeners the EventTarget holds for a name, which a dispatch calls
Listening(l, name) == IF name \in DOMAIN l THEN l[name] ELSE {}
\* the Set that this.handlers holds for a name, if it holds one
Recorded(hs, name) == IF name \in DOMAIN hs THEN hs[name] ELSE {}
\* super.addEventListener, super.removeEventListener
SuperAdd(l, name, h) == Put(l, name, Listening(l, name) \cup {h})
SuperRemove(l, name, h) == Put(l, name, Listening(l, name) \ {h})

CallEvent(op, name, h) == [NoEvent EXCEPT !.op = op, !.name = name, !.handler = h]
Thrown(e) == [e EXCEPT !.threw = TRUE]

\* addEventListener(name, handler).  this.handlers[name] is truthy for a
\* name of Object.prototype: no Set is made, and ".add" of what is found
\* there is not a function
AddEventListener(name, h) ==
    /\ listening' = SuperAdd(listening, name, h)
    /\ IF name \in DOMAIN handlers \/ name \notin ObjectPrototype
       THEN /\ handlers' = Put(handlers, name, Recorded(handlers, name) \cup {h})
            /\ event' = CallEvent("addEventListener", name, h)
       ELSE /\ event' = Thrown(CallEvent("addEventListener", name, h))
            /\ UNCHANGED handlers
    /\ UNCHANGED <<reg, env, api, ctl, uncaught, tree, walk>>

\* removeEventListener(name, handler) on the target t; this.handlers[name]
\* has a delete, a forEach and a clear only when it is a Set
removeEventListener(t, name, h) ==
    IF h # NoHandler
    THEN IF name \in DOMAIN t.handlers
         THEN [t EXCEPT !.listening = SuperRemove(t.listening, name, h),
                        !.handlers = Put(t.handlers, name, t.handlers[name] \ {h})]
         ELSE [t EXCEPT !.listening = SuperRemove(t.listening, name, h),
                        !.threw = TRUE]
    ELSE IF name \in DOMAIN t.handlers
         THEN [t EXCEPT !.listening = Put(t.listening, name,
                              Listening(t.listening, name) \ t.handlers[name]),
                        !.handlers = Put(t.handlers, name, {})]
         ELSE [t EXCEPT !.threw = TRUE]

\* "Object.keys(this.handlers).map(name => { this.removeEventListener(name, null) })"
RECURSIVE RemoveEach(_, _)
RemoveEach(t, names) ==
    IF names = {} THEN t
    ELSE LET name == CHOOSE n \in names : TRUE
         IN RemoveEach(removeEventListener(t, name, NoHandler), names \ {name})

\* removeAllListeners(name) on the target t
removeAllListeners(t, name) ==
    IF Truthy(name) THEN removeEventListener(t, name, NoHandler)
    ELSE [RemoveEach(t, DOMAIN t.handlers) EXCEPT !.handlers = EmptyMap]

Target == [handlers |-> handlers, listening |-> listening, threw |-> FALSE]

RemoveEventListener(name, h) ==
    LET t == removeEventListener(Target, name, h)
    IN /\ handlers' = t.handlers
       /\ listening' = t.listening
       /\ event' = [CallEvent("removeEventListener", name, h) EXCEPT !.threw = t.threw]
       /\ UNCHANGED <<reg, env, api, ctl, uncaught, tree, walk>>

RemoveAllListeners(name) ==
    LET t == removeAllListeners(Target, name)
    IN /\ handlers' = t.handlers
       /\ listening' = t.listening
       /\ event' = [CallEvent("removeAllListeners", name, NoHandler) EXCEPT !.threw = t.threw]
       /\ UNCHANGED <<reg, env, api, ctl, uncaught, tree, walk>>

\* dispatchEvent(new CustomEvent(name)): the EventTarget calls its listeners
DispatchEvent(name) ==
    /\ event' = [CallEvent("dispatchEvent", name, NoHandler) EXCEPT
                    !.invoked = Listening(listening, name)]
    /\ UNCHANGED <<reg, env, api, ctl, uncaught, tree, walk, handlers, listening>>

NextTarget ==
    \/ \E name \in EventNames, h \in Handlers : AddEventListener(name, h)
    \/ \E name \in EventNames, h \in Handlers \cup {NoHandler} : RemoveEventListener(name, h)
    \/ \E name \in EventNames \cup {NoName} : RemoveAllListeners(name)
    \/ \E name \in EventNames : DispatchEvent(name)

SpecTarget == Init /\ [][NextTarget]_vars

\* ------------------------------------------------------------- C26
\* the call made last, when it is op
Calls(op) == event'.op = op /\ <<handlers, listening, event>>' # <<handlers, listening, event>>
\* the handlers of every name but those in names are as they were
OthersKept(names) ==
    \A m \in EventNames \ names :
        /\ Listening(listening', m) = Listening(listening, m)
        /\ Recorded(handlers', m) = Recorded(handlers, m)
\* no handler of name is left
NoneLeft(name) ==
    Listening(listening', name) = {} /\ Recorded(handlers', name) = {}

\* C26: the handlers that a dispatch of a name calls are the ones
\* recorded under the name; removeEventListener(n, h) removes h from n
\* and nothing else; removeEventListener(n) and removeAllListeners(n)
\* remove each handler of n and none of another name; removeAllListeners()
\* removes each handler of each name.
C26_ObserverRegistry ==
    [][/\ Calls("dispatchEvent") => event'.invoked = Recorded(handlers', event'.name)
       /\ Calls("removeEventListener") /\ event'.handler # NoHandler =>
            /\ Listening(listening', event'.name) = Listening(listening, event'.name) \ {event'.handler}
            /\ Recorded(handlers', event'.name) = Recorded(handlers, event'.name) \ {event'.handler}
            /\ OthersKept({event'.name})
       /\ Calls("removeEventListener") /\ event'.handler = NoHandler =>
            NoneLeft(event'.name) /\ OthersKept({event'.name})
       /\ Calls("removeAllListeners") /\ event'.name # NoName =>
            NoneLeft(event'.name) /\ OthersKept({event'.name})
       /\ Calls("removeAllListeners") /\ event'.name = NoName =>
            \A name \in EventNames : NoneLeft(name)]_vars

\* ------------------------------------------------------------- C27
\* _fileIdsByName has id under name
ByName(name, id) == name \in DOMAIN fileIdsByName /\ fileIdsByName[name] = id
\* id is in fileIds and fileNames has name under it
ById(id, name) == id \in fileIds /\ id \in DOMAIN fileNames /\ fileNames[id] = name
\* the calls of createNewEmptyFile that have not resolved
Creating == {c \in calls : c.op = "create"}

LiveWriteStreams(id) ==
    (IF id \in DOMAIN writeStreams /\ ~writeStreams[id].ended THEN 1 ELSE 0)
    + Cardinality({j \in DOMAIN zombies :
                     zombies[j].name = fileNames[id] /\ ~zombies[j].ended})
\* a createNewEmptyFile was called for an id that writeStreams has a stream of
Recreates(id) ==
    /\ id \in DOMAIN writeStreams
    /\ \E c \in calls' \ calls : c.op = "create" /\ c.id = id
\* a call of getReadStream or getOrCreateReadStream returned a stream of id
GotStream(id) ==
    /\ last.op \notin {"getReadStream", "getOrCreateReadStream"}
    /\ last'.op \in {"getReadStream", "getOrCreateReadStream"}
    /\ last'.id = id /\ last'.result = "stream"

\* C28: an id has at most one write stream that was not ended and at most
\* one read stream; createNewEmptyFile for an id that has a write stream
\* ends it and then records a new one; getReadStream and
\* getOrCreateReadStream for an id that has a read stream return that one
\* and make no other.
C28_OneHandle ==
    /\ [](\A id \in DOMAIN fileNames : LiveWriteStreams(id) <= 1)
    /\ [](\A j \in DOMAIN zombies : zombies[j].ended)
    /\ [][\A id \in 1..MaxIds : Recreates(id) =>
            /\ zombies' = EndStream(zombies, writeStreams[id])
            /\ ~writeStreams'[id].ended /\ ~writeStreams'[id].opened
            /\ writeStreams'[id].buf = <<>>]_vars
    /\ [][\A id \in DOMAIN readStreams : GotStream(id) => readStreams' = readStreams]_vars

\* a stream that was ended is still at work on the file while the new
\* stream of the id is open, the id has a read stream, and a call has just
\* returned a read stream
C28_Witness ==
    /\ \E id \in DOMAIN writeStreams :
         /\ writeStreams[id].opened
         /\ \E j \in DOMAIN zombies : zombies[j].name = writeStreams[id].name
         /\ id \in DOMAIN readStreams
    /\ last.op \in {"getReadStream", "getOrCreateReadStream"}
    /\ last.result = "stream"

\* ------------------------------------------------------------- C29
\* C29: _fileHashObjects has a hash object for an id only when the id is
\* in fileIds and writeStreams has a stream for it, also after the
\* callback of a write ran when close(id) or deleteFile(id) had been done.
C29_HashObjectOnlyInSession ==
    \A id \in DOMAIN fileHashObjects : id \in fileIds /\ id \in DOMAIN writeStreams

\* ------------------------------------------------------------- C30
\* C30: fileHashes has no hash for an id while its file is new and nothing
\* was written to it, and while the id has a write stream that close has
\* not finalized, also when createNewEmptyFile gave the id of a name
\* again after a hash was recorded for it.
C30_NoHashInSession ==
    \A id \in DOMAIN writeStreams : id \notin DOMAIN fileHashes

\* ------------------------------------------------------------- C37
\* a chunk message is handled in this step: the event reaches at least one
\* data handler, and its argument is a chunk
ChunkHandled ==
    /\ uncaught = NoError /\ uncaught' = NoError
    /\ c2s # <<>> /\ c2s' = Tail(c2s)
    /\ Head(c2s).id # NoId
    /\ IsChunk(Head(c2s).payload)
    /\ Listeners(Head(c2s).id) # <<>>

\* C37 (as claimed): also after 'upload' was received more than once for a
\* file name, a chunk message is given to write once, or is answered once
\* with a failure, and after an end-of-stream message no data handler is
\* registered for the event.
C37_RepeatedBeginUpload ==
    [][/\ ChunkHandled => (PendingWrites' - PendingWrites) + Len(Emitted) = 1
       /\ EosHandled =>
            (Head(c2s).id \in DOMAIN listeners' => listeners'[Head(c2s).id] = <<>>)]_vars

\* ------------------------------------------------------------- C38
\* a caller that awaits each call and reads: createNewEmptyFile, write,
\* close, readFile and updateHash; each I/O completion that is pending is
\* delivered in the end
NextRead ==
    \/ Running /\ Idle /\ \E n \in Names : Create(n)
    \/ Running /\ Idle /\ \E id \in 1..MaxIds, data \in Chunks : Write(id, data)
    \/ Running /\ Idle /\ \E id \in 1..MaxIds : Close(id)
    \/ Running /\ Idle /\ \E id \in 1..MaxIds : ReadFile(id)
    \/ Running /\ Idle /\ \E id \in 1..MaxIds : UpdateHash(id)
    \/ Running /\ \E id \in DOMAIN writeStreams : OpenWrite(id)
    \/ Running /\ \E id \in DOMAIN writeStreams : WriteDone(id)
    \/ Running /\ \E id \in DOMAIN readStreams : ReadOpen(id)
    \/ Running /\ \E id \in DOMAIN readStreams : ReadChunk(id)

SpecRead == Init /\ [][NextRead]_vars /\ WF_vars(NextRead)

\* readFile(id, sink) is running for a file that is tracked and has no
\* write stream
ReadingClosed(id) ==
    /\ id \in fileIds /\ id \notin DOMAIN writeStreams
    /\ \E c \in calls : c.op = "readFile" /\ c.id = id

\* C38 (as claimed): a readFile(id, sink) for a tracked file with no write
\* stream completes in the end, also when a readFile(id) or an
\* updateHash(id) ran before it and close(id) was not called in between.
C38_RepeatedReads ==
    \A id \in 1..MaxIds :
        ReadingClosed(id) ~> (\A c \in calls : ~(c.op = "readFile" /\ c.id = id))

\* ------------------------------------------------------------- C35
\* what a client may send on `upload-${fileId}`: nothing, {}, { data: '' },
\* an object without data, { data: 'a' }, and { data: 'ba', code: 0 }
EosPayloads ==
    {Undefined, EmptyObject, DataPayload(<<>>), FileNamePayload("f"),
     DataPayload(<<"a">>),
     [DataPayload(<<"b", "a">>) EXCEPT !.keys = {"data", "code"}]}

\* any client, sending any of these payloads
NextEos ==
    \/ Remote /\ \E n \in Names : ClientSendUpload(n)
    \/ Remote /\ \E x \in EosPayloads : ClientSendData(x)
    \/ Remote /\ ClientReceive
    \/ Running /\ UploadHandler
    \/ Running /\ DataHandlers
    \/ Running /\ \E id \in DOMAIN writeStreams : OpenWrite(id)
    \/ Running /\ \E j \in DOMAIN zombies : ZombieOpen(j)
    \/ Running /\ \E id \in DOMAIN writeStreams : WriteDone(id)
    \/ Running /\ \E j \in DOMAIN zombies : ZombieWriteDone(j)

SpecEos == Init /\ [][NextEos]_vars

\* the cases of end of stream as the documentation lists them: no payload
\* or a falsy one, an empty object, a payload without a data field, a
\* payload whose data is falsy (the empty string)
EosMessage(x) ==
    \/ ~x.defined
    \/ x.keys = {}
    \/ "data" \notin x.keys
    \/ x.data = <<>>

\* a message on `upload-${fileId}` reaches the data handlers in this step
MessageHandled ==
    /\ uncaught = NoError /\ uncaught' = NoError
    /\ c2s # <<>> /\ c2s' = Tail(c2s)
    /\ Head(c2s).id # NoId
    /\ Listeners(Head(c2s).id) # <<>>

\* what the step appended to the buffer of the write stream of fileId
Appended(fileId) ==
    SubSeq(writeStreams'[fileId].buf, Len(writeStreams[fileId].buf) + 1,
           Len(writeStreams'[fileId].buf))

\* C35 (as claimed): a message that reaches a data handler is taken as the
\* end of the stream (the write stream of the id is closed, each handler
\* answers with an event without payload, nothing is given to write)
\* exactly when it is one of the cases of EosMessage; any other message is
\* taken as a chunk and its data is written: it is appended to the write
\* stream of the id, nothing is emitted before the write completes, and the
\* listeners stay.
C35_EosDetection ==
    [][MessageHandled =>
         LET fileId == Head(c2s).id
             x == Head(c2s).payload
             hs == Listeners(fileId)
         IN IF EosMessage(x)
            THEN /\ fileId \notin DOMAIN writeStreams'
                 /\ Len(Emitted) = Len(hs)
                 /\ \A k \in DOMAIN Emitted : Emitted[k] = Msg(fileId, Undefined)
                 /\ PendingWrites' = PendingWrites
            ELSE /\ listeners' = listeners
                 /\ Emitted = <<>>
                 /\ fileId \in DOMAIN writeStreams
                 /\ fileId \in DOMAIN writeStreams'
                 /\ Len(Appended(fileId)) = Len(hs)
                 /\ \A k \in DOMAIN Appended(fileId) :
                       Appended(fileId)[k].data = x.data]_vars

\* ------------------------------------------------------------- C31
\* a client that sends its chunks one after the other without waiting for
\* the acknowledgments: { data: 'a' }, { data: 'b' }, then the end of the
\* stream
OrderList == <<DataPayload(<<"a">>), DataPayload(<<"b">>), Undefined>>

ClientSendNext ==
    /\ client.sent < Len(OrderList)
    /\ ClientSendData(OrderList[client.sent + 1])

NextOrder ==
    \/ Remote /\ \E n \in Names : ClientSendUpload(n)
    \/ Remote /\ ClientSendNext
    \/ Remote /\ ClientReceive
    \/ Running /\ UploadHandler
    \/ Running /\ DataHandlers
    \/ Running /\ \E id \in DOMAIN writeStreams : OpenWrite(id)
    \/ Running /\ \E j \in DOMAIN zombies : ZombieOpen(j)
    \/ Running /\ \E id \in DOMAIN writeStreams : WriteDone(id)
    \/ Running /\ \E j \in DOMAIN zombies : ZombieWriteDone(j)

SpecOrder == Init /\ [][NextOrder]_vars

\* the data of a sequence of payloads, or of buffered chunks, in a row
RECURSIVE DataOf(_)
DataOf(xs) == IF xs = <<>> THEN <<>> ELSE Head(xs).data \o DataOf(Tail(xs))
RECURSIVE BufferedIn(_)
BufferedIn(streams) ==
    IF streams = <<>> THEN <<>>
    ELSE DataOf(Head(streams).buf) \o BufferedIn(Tail(streams))

\* the data of the chunk messages that were delivered to the session, in
\* the order of delivery
Delivered == DataOf(SubSeq(OrderList, 1, seen.chunks))
\* what the streams have been given and have not written yet: the streams
\* that were ended first, then the stream of the registry
Buffered(id) ==
    BufferedIn(zombies) \o
    (IF id \in DOMAIN writeStreams THEN DataOf(writeStreams[id].buf) ELSE <<>>)
IsSuffix(s, t) ==
    Len(s) <= Len(t) /\ SubSeq(t, Len(t) - Len(s) + 1, Len(t)) = s

\* C31 (as claimed): the content of the file, followed by the chunks that
\* are still buffered, is the data of the chunk messages in the order in
\* which they were delivered, also when the client does not wait for the
\* acknowledgments; and what the hash object of the id has been given is
\* the last part of the content of the file, in the same order.
C31_WriteOrdering ==
    client.fileId # NoId /\ seen.chunks > 0 =>
        LET id == client.fileId
            content == IF "f" \in DOMAIN disk THEN disk["f"] ELSE <<>>
        IN /\ content \o Buffered(id) = Delivered
           /\ id \in DOMAIN fileHashObjects => IsSuffix(fileHashObjects[id], content)

\* ------------------------------------------------------------- C32
\* a client with two uploads on one connection, one for the file "f" and
\* one for the file "g", begun at any time: it sends 'a' chunks for "f" and
\* 'b' chunks for "g", or the end of the stream, to an id the server has
\* announced, in any order
OwnChunk(id) ==
    IF id \in DOMAIN fileNames /\ fileNames[id] = "g" THEN <<"b">> ELSE <<"a">>

ClientSendTo(id, x) ==
    /\ client.msgs < MaxMsgs
    /\ id \in DOMAIN dataHandlers
    /\ c2s' = Append(c2s, Msg(id, x))
    /\ client' = [client EXCEPT !.msgs = @ + 1, !.sent = @ + 1]
    /\ UNCHANGED <<reg, env, api, listeners, dataHandlers, nextHandler, s2c, seen>>

\* 'upload' was sent for the name before
Begun(n) ==
    \/ n \in DOMAIN fileIdsByName
    \/ \E k \in DOMAIN c2s : c2s[k] = Msg(NoId, FileNamePayload(n))

NextSessions ==
    \/ Remote /\ \E n \in TwoNames : ~Begun(n) /\ ClientSendUpload(n)
    \/ Remote /\ \E id \in 1..MaxIds :
                    \E x \in {DataPayload(OwnChunk(id)), Undefined} : ClientSendTo(id, x)
    \/ Remote /\ ClientReceive
    \/ Running /\ UploadHandler
    \/ Running /\ DataHandlers
    \/ Running /\ \E id \in DOMAIN writeStreams : OpenWrite(id)
    \/ Running /\ \E id \in DOMAIN writeStreams : WriteDone(id)
    \/ Running /\ \E j \in DOMAIN zombies : ZombieWriteDone(j)

SpecSessions == Init /\ [][NextSessions]_vars

\* what belongs to the session of an id: the content of its file, its
\* hash, its hash object, its streams, its listeners and its data handler
At(f, k) == IF k \in DOMAIN f THEN <<f[k]>> ELSE <<>>
SessionOf(id) ==
    [content |-> At(disk, fileNames[id]), hash |-> At(fileHashes, id),
     accumulator |-> At(fileHashObjects, id),
     writeStream |-> At(writeStreams, id), readStream |-> At(readStreams, id),
     listeners |-> At(listeners, id), handler |-> At(dataHandlers, id)]
ZombiesOf(name) == SelectSeq(zombies, LAMBDA s : s.name = name)

\* a message on `upload-${id}` is handled in this step
MessageOn(id) == c2s # <<>> /\ c2s' = Tail(c2s) /\ Head(c2s).id = id
\* an I/O completion of a write stream of the file of id is delivered
StreamStep(id) ==
    /\ c2s' = c2s
    /\ \/ At(writeStreams, id)' # At(writeStreams, id)
       \/ ZombiesOf(fileNames[id])' # ZombiesOf(fileNames[id])

C33_AtomicDeletion ==
    \A id \in 1..MaxIds :
        /\ id \in fileIds <=> id \in DOMAIN fileNames
        /\ id \in fileIds <=> \E n \in DOMAIN fileIdsByName : fileIdsByName[n] = id
        /\ id \notin fileIds =>
             /\ id \notin DOMAIN fileHashes
             /\ id \notin DOMAIN readStreams
             /\ id \notin DOMAIN writeStreams

\* ------------------------------------------------------------- C40
\* the client has sent its chunks and the end of the stream, the server has
\* handled them, and no write is pending any more
UploadSettled ==
    /\ client.fileId # NoId /\ client.sent = Len(OrderList)
    /\ c2s = <<>> /\ zombies = <<>> /\ PendingWrites = 0
    /\ uncaught = NoError

\* C40 (as claimed): when the end of the stream was handled, also while the
\* write of an earlier chunk had not completed, then once every pending
\* callback has run the hash recorded for the id is the digest of all the
\* chunks in the file, and the id has no hash object and no write stream.
C40_EosRacingWrite ==
    UploadSettled =>
        LET id == client.fileId
        IN /\ id \in DOMAIN fileHashes
           /\ "f" \in DOMAIN disk /\ fileHashes[id] = Digest(disk["f"])
           /\ id \notin DOMAIN fileHashObjects
           /\ id \notin DOMAIN writeStreams

\* ------------------------------------------------------------- C34
\* the state of the upload session of an id, as far as the server shows it:
\* INIT until a data handler was registered for the id, CLOSED when one
\* was registered and none listens any more, WRITE_PENDING while a chunk of
\* the session is not written yet, AWAIT_CHUNK otherwise.  EOS_RECEIVED is
\* passed within the handler of the end-of-stream message.
SessionState(id) ==
    IF id \notin DOMAIN dataHandlers THEN "INIT"
    ELSE IF Listeners(id) = <<>> THEN "CLOSED"
    ELSE IF PendingWrites > 0 THEN "WRITE_PENDING"
    ELSE "AWAIT_CHUNK"

SessionTransitions ==
    {<<"INIT", "AWAIT_CHUNK">>, <<"AWAIT_CHUNK", "WRITE_PENDING">>,
     <<"WRITE_PENDING", "AWAIT_CHUNK">>, <<"AWAIT_CHUNK", "CLOSED">>}

\* C34 (as claimed): the session of an id takes no other transitions than
\* INIT to AWAIT_CHUNK, AWAIT_CHUNK to WRITE_PENDING on a chunk,
\* WRITE_PENDING to AWAIT_CHUNK with the acknowledgment, and AWAIT_CHUNK
\* over EOS_RECEIVED to CLOSED; while it is in WRITE_PENDING no further
\* chunk is taken; and in CLOSED nothing is written to the file and nothing
\* is emitted.
C34_SessionStateMachine ==
    [][\A id \in 1..MaxIds :
         LET s == SessionState(id)
             t == SessionState(id)'
         IN /\ s # t => <<s, t>> \in SessionTransitions
            /\ s = "WRITE_PENDING" /\ t = "WRITE_PENDING" =>
                 PendingWrites' = PendingWrites
            /\ s = "CLOSED" /\ id \in fileIds =>
                 /\ disk' = disk
                 /\ PendingWrites' = PendingWrites
                 /\ \A k \in DOMAIN Emitted : Emitted[k].id # id]_vars

\* ------------------------------------------------------------- C36
\* C36 (as claimed): whatever createNewEmptyFile, write, writeFile,
\* updateHash and close were called before, when no call and no write is
\* pending, an id of fileIds that has no write stream and has a hash in
\* fileHashes has there the digest of the content of its file.
C36_HashMatchesContent ==
    calls = {} /\ zombies = <<>> /\ uncaught = NoError =>
        \A id \in fileIds :
            id \notin DOMAIN writeStreams /\ id \in DOMAIN fileHashes =>
                /\ fileNames[id] \in DOMAIN disk
                /\ fileHashes[id] = Digest(disk[fileNames[id]])

\* ------------------------------------------------------------- C39
\* the run of test_FileStoreControl where every I/O completion and every
\* message that is pending is delivered in the end, and no I/O fails
SpecUpload == InitTest /\ [][NextTest]_vars /\ WF_vars(NextTest)

\* the client was sent { fileId }
SessionBegun == client.on /\ client.fileId # NoId
\* the client has received the acknowledgment of its end-of-stream message;
\* the id has no write stream, no data handler listens on its event, and a
\* hash is recorded for it
SessionClosed ==
    /\ client.done
    /\ client.fileId \notin DOMAIN writeStreams
    /\ Listeners(client.fileId) = <<>>
    /\ client.fileId \in DOMAIN fileHashes

\* C39: with a client that sends each chunk after the acknowledgment of the
\* one before and then the end of the stream, and no I/O failure, a
\* session whose { fileId } was received is closed in the end: the final
\* acknowledgment was emitted, the id has no write stream, its handler is
\* removed, and (at least one chunk was sent) a hash is recorded for it.
C39_UploadLiveness == SessionBegun ~> SessionClosed

\* the upload of the five chunks of the test is closed
C39_Witness ==
    /\ SessionClosed /\ client.list = TestData
    /\ client.acks = Len(TestData)

====
